---- MODULE Spec2Model ----
(***************************************************************************)
(* Verification model of the ray tracer core (raytracer/src):              *)
(*   - intersection lists: intersections(), hit(), Csg filtering           *)
(*   - World::color_at recursion (reflection / refraction)                 *)
(*   - Camera::render and Camera::render_multithreaded                     *)
(*   - RenderOpts, BoundingBox, Group / Csg hierarchies,                   *)
(*     Intersection::prepare_computations                                  *)
(* The specifications share one variable list; each pins the variables     *)
(* of the other parts to their idle values.                                *)
(***************************************************************************)
EXTENDS Integers, Sequences, FiniteSets, TLC

\* ------------------------------------------------------------------------
\* Bounds
\* ------------------------------------------------------------------------
MaxLen == 4
MaxT == 1
MaxRemaining == 3
NumRays == 2
MaxH == 2
MaxV == 3
MaxThreads == 3
MaxCoord == 2
MaxPrims == 3
MaxOps == 3
MaxDivideDepth == 10
MaxXs == 6

\* ------------------------------------------------------------------------
\* State
\* ------------------------------------------------------------------------
VARIABLES
    \* intersection lists
    ipc,          \* position in the intersect pipeline
    operation,    \* Csg.operation
    xs,           \* the intersections handed to intersections()
    sorted,       \* the list returned by intersections()
    hitResult,    \* Option returned by hit(): <<>> is None, <<i>> is Some(i)
    filtered,     \* the list returned by Csg::filter_intersections
    rule,         \* last evaluation of Operation::intersection_allowed
    \* World::color_at recursion
    spc,          \* "idle", "running" or "done"
    world,        \* what each ray of the scene meets
    depth0,       \* the remaining argument of the outermost color_at call
    stack,        \* the active color_at calls, outermost first
    shadeResult,  \* the color returned by the outermost color_at call
    \* Camera::render and Camera::render_multithreaded
    camera,       \* hsize, vsize, render_opts.num_threads, render_opts.aa_samples
    scene,        \* the World handed to the renderer
    seqpc,        \* Camera::render: "idle", "start", "returned" or "panicked"
    seqImage,     \* the Canvas returned by Camera::render
    cpc,          \* coordinator: "idle", "spawn", "recv", "join", "returned", "panicked"
    spawned,      \* threads spawned so far (loop variable of the spawn loop)
    received,     \* results received so far (loop variable of the recv loop)
    joined,       \* handles joined so far
    wpc,          \* per worker: "unspawned", "spawned", "running", "sent", "exited", "panicked"
    wres,         \* per worker: its RenderThreadResult
    channel,      \* results sent and not yet received, in arrival order
    senders,      \* live Sender handles: tx and the workers' clones
    image,        \* the coordinator's Canvas
    writes,       \* history: number of set_pixel calls per pixel of image
    computed,     \* history: per pixel, the (worker, color) pairs pushed for it
    \* RenderOpts configuration
    opc,          \* caller: "idle", "config", "rendering", "panicked" or "divzero"
    render_opts,  \* Camera.render_opts: num_threads, aa_samples
    optRows,      \* Camera.vsize
    optRowsPerThread,  \* rows_per_thread computed by render_multithreaded
    optsCall,     \* argument of the last RenderOpts::num_threads call, -1 before any
    \* BoundingBox union
    bpc,          \* "idle", "start" or "done"
    boxA,         \* the receiver of add_bounding_box, before the call
    boxB,         \* the argument of add_bounding_box
    boxU,         \* the receiver after the call
    \* Group, Csg and the bounding-box hierarchy
    gpc,          \* "idle", "build", "done" or "overflow"
    grp,          \* the group under construction (the root of the tree)
    gprev,        \* history: grp before the last operation
    glast,        \* history: the last operation and its argument
    ghist,        \* history: the kinds of operation applied so far
    gtrace,       \* the intersect calls made by the last Group::intersect
    gcount,       \* number of primitives created so far (next id - 1)
    gops,         \* number of operations applied so far
    \* Intersection::prepare_computations
    ppc,          \* "idle", "start" or "done"
    pshapes,      \* the shapes of the scene: material.refractive_index, transform
    pxs,          \* the intersection list handed to prepare_computations
    phit,         \* index in pxs of the hit
    comps,        \* the n1 and n2 of the Computations returned
    hpc,          \* is_shadowed: "start" or "done"
    hshadowless,  \* the objects marked no_shadow
    hdistance,    \* distance from the point to the light
    hxs,          \* what the objects' intersect calls return for the shadow ray
    hsorted,      \* the list World::intersect returns
    hshadowed,    \* the result of is_shadowed
    kpc,          \* local_intersect of a cylinder or cone: "start" or "done"
    kshape,       \* the cylinder or cone: kind, minimum, maximum, closed
    kray,         \* the ray in the shape's space
    kxs           \* the intersections returned, each with the branch that made it

ivars == <<ipc, operation, xs, sorted, hitResult, filtered, rule>>
svars == <<spc, world, depth0, stack, shadeResult>>
rvars == <<camera, scene, seqpc, seqImage, cpc, spawned, received, joined,
           wpc, wres, channel, senders, image, writes, computed>>
ovars == <<opc, render_opts, optRows, optRowsPerThread, optsCall>>
bvars == <<bpc, boxA, boxB, boxU>>
gvars == <<gpc, grp, gprev, glast, ghist, gtrace, gcount, gops>>
pvars == <<ppc, pshapes, pxs, phit, comps>>
hvars == <<hpc, hshadowless, hdistance, hxs, hsorted, hshadowed>>
kvars == <<kpc, kshape, kray, kxs>>
vars == <<ivars, svars, rvars, ovars, bvars, gvars, pvars, hvars, kvars>>

\* ------------------------------------------------------------------------
\* Generic helpers
\* ------------------------------------------------------------------------
RemoveAt(s, i) == [k \in 1..(Len(s) - 1) |-> IF k < i THEN s[k] ELSE s[k + 1]]

SetMin(S) == CHOOSE m \in S : \A n \in S : m <= n

SeqsUpTo(S, n) == UNION {[1..k -> S] : k \in 0..n}

\* ------------------------------------------------------------------------
\* Csg: Operation and filter_intersections   (geometry/shape/csg.rs)
\* ------------------------------------------------------------------------
Operations == {"Union", "Intersection", "Difference"}

\* The Csg under test: its left child is a group of the shapes "s1" and
\* "s3", its right child is the shape "s2".
LeftShapes == {"s1", "s3"}
RightShapes == {"s2"}
Shapes == LeftShapes \cup RightShapes

\* Shape::includes on the left child: pointer identity over the subtree.
includes(subtree, object) == object \in subtree

union_allowed(lhit, inl, inr) == (lhit /\ ~inr) \/ (~lhit /\ ~inl)

op_intersection_allowed(lhit, inl, inr) == (lhit /\ inr) \/ (~lhit /\ inl)

\* mutant: the difference row written with the union's second disjunct
difference_allowed_as_union(lhit, inl, inr) == (lhit /\ ~inr) \/ (~lhit /\ ~inl)

difference_allowed(lhit, inl, inr) == (lhit /\ ~inr) \/ (~lhit /\ inl)

intersection_allowed(op, lhit, inl, inr) ==
    CASE op = "Union" -> union_allowed(lhit, inl, inr)
      [] op = "Intersection" -> op_intersection_allowed(lhit, inl, inr)
      [] op = "Difference" -> difference_allowed(lhit, inl, inr)

\* The loop of filter_intersections over list[k..], carrying inl, inr and
\* the result built so far.
RECURSIVE FilterLoop(_, _, _, _, _, _)
FilterLoop(op, list, k, inl, inr, result) ==
    IF k > Len(list) THEN result
    ELSE LET lhit == includes(LeftShapes, list[k].object)
             kept == IF intersection_allowed(op, lhit, inl, inr)
                     THEN Append(result, list[k]) ELSE result
         IN  IF lhit
             THEN FilterLoop(op, list, k + 1, ~inl, inr, kept)
             ELSE FilterLoop(op, list, k + 1, inl, ~inr, kept)

\* mutant: the walk flips inl for every hit, never inr
RECURSIVE FilterLoopOneFlag(_, _, _, _, _, _)
FilterLoopOneFlag(op, list, k, inl, inr, result) ==
    IF k > Len(list) THEN result
    ELSE LET lhit == includes(LeftShapes, list[k].object)
             kept == IF intersection_allowed(op, lhit, inl, inr)
                     THEN Append(result, list[k]) ELSE result
         IN  FilterLoopOneFlag(op, list, k + 1, ~inl, inr, kept)

filter_intersections_one_flag(op, list) ==
    FilterLoopOneFlag(op, list, 1, FALSE, FALSE, <<>>)

filter_intersections(op, list) == FilterLoop(op, list, 1, FALSE, FALSE, <<>>)

\* ------------------------------------------------------------------------
\* intersections() and hit()   (geometry/intersection.rs)
\* ------------------------------------------------------------------------
Ts == (0 - MaxT)..MaxT

Intersection == [t : Ts, object : Shapes]

\* sort_unstable_by on t: the result is sorted by t; the order among
\* entries with equal t is whatever the sort implementation produces, so
\* every such order is an outcome.
RECURSIVE SortOutcomes(_)
SortOutcomes(s) ==
    IF s = <<>> THEN {<<>>}
    ELSE LET m == SetMin({s[i].t : i \in 1..Len(s)})
         IN  UNION {{<<s[i]>> \o r : r \in SortOutcomes(RemoveAt(s, i))} :
                        i \in {j \in 1..Len(s) : s[j].t = m}}

\* a version that hands the list back in the order it came in
intersections_unsorted(list) == {list}

intersections(list) == SortOutcomes(list)

\* mutant: a hit at t = 0 is skipped
hit_strictly_positive(list) ==
    LET idx == {i \in 1..Len(list) : list[i].t > 0}
    IN  IF idx = {} THEN <<>> ELSE <<list[SetMin(idx)]>>

\* xs.iter().find(|i| i.t() >= 0.0)
hit(list) ==
    LET idx == {i \in 1..Len(list) : list[i].t >= 0}
    IN  IF idx = {} THEN <<>> ELSE <<list[SetMin(idx)]>>


NoRule == [lhit |-> FALSE, inl |-> FALSE, inr |-> FALSE, result |-> FALSE]

IntersectIdle ==
    /\ ipc = "idle"
    /\ operation = "Union"
    /\ xs = <<>>
    /\ sorted = <<>>
    /\ hitResult = <<>>
    /\ filtered = <<>>
    /\ rule = NoRule

RenderIdle ==
    /\ camera = [hsize |-> 0, vsize |-> 0, num_threads |-> 1, aa_samples |-> "X1"]
    /\ scene = [tint |-> 0, panics |-> {}]
    /\ seqpc = "idle"
    /\ seqImage = <<>>
    /\ cpc = "idle"
    /\ spawned = 0
    /\ received = 0
    /\ joined = 0
    /\ wpc = <<>>
    /\ wres = <<>>
    /\ channel = <<>>
    /\ senders = {}
    /\ image = <<>>
    /\ writes = <<>>
    /\ computed = <<>>

\* RenderOpts::default (camera.rs 235-242)
DefaultRenderOpts == [num_threads |-> 1, aa_samples |-> "X1"]

OptsIdle ==
    /\ opc = "idle"
    /\ render_opts = DefaultRenderOpts
    /\ optRows = 0
    /\ optRowsPerThread = 0
    /\ optsCall = 0 - 1

BoxIdle ==
    /\ bpc = "idle"
    /\ boxA = <<>>
    /\ boxB = <<>>
    /\ boxU = <<>>

GroupIdle ==
    /\ gpc = "idle"
    /\ grp = <<>>
    /\ gprev = <<>>
    /\ glast = <<>>
    /\ ghist = {}
    /\ gtrace = {}
    /\ gcount = 0
    /\ gops = 0

PrepareIdle ==
    /\ ppc = "idle"
    /\ pshapes = <<>>
    /\ pxs = <<>>
    /\ phit = 0
    /\ comps = <<>>

ShadowIdle ==
    /\ hpc = "idle"
    /\ hshadowless = {}
    /\ hdistance = 0
    /\ hxs = <<>>
    /\ hsorted = <<>>
    /\ hshadowed = FALSE

ConeIdle ==
    /\ kpc = "idle"
    /\ kshape = <<>>
    /\ kray = <<>>
    /\ kxs = <<>>

\* ------------------------------------------------------------------------
\* World::color_at, shade_hit, reflected_color, refracted_color  (world.rs)
\*
\* Numbers are fixed point: coefficients (reflective, transparency,
\* reflectance) in units of EPSILON / 10, colors (one channel) in units of
\* 1 / 4^MaxRemaining.  A color_at of depth MaxRemaining halves a color at
\* most twice per level (by reflective or transparency, then by the
\* reflectance), so every product below is a whole number of units, as it
\* is exact in f64.
\* ------------------------------------------------------------------------
EPSILON == 10
ONE == 100000 * EPSILON

Abs(a) == IF a < 0 THEN 0 - a ELSE a

\* lib.rs: (a - b).abs() < EPSILON
equal(a, b) == Abs(a - b) < EPSILON

Black == 0

\* Color * f64
ColorMul(color, coef) == (color * coef) \div ONE

\* The materials of the scene: matte, faintly reflective (below EPSILON),
\* mirror, clear, and glass (reflective and transparent).
Materials ==
    { [reflective |-> 0, transparency |-> 0],
      [reflective |-> EPSILON \div 2, transparency |-> 0],
      [reflective |-> ONE, transparency |-> 0],
      [reflective |-> 0, transparency |-> ONE],
      [reflective |-> ONE \div 2, transparency |-> ONE \div 2] }

Rays == 1..NumRays

\* mutant: reflected_color checks only the coefficient
ReflectShortCircuitNoDepth(material, remaining) == equal(material.reflective, 0)

\* reflected_color: equal(material.reflective, 0.0) || remaining == 0
ReflectShortCircuit(material, remaining) ==
    equal(material.reflective, 0) \/ remaining = 0

\* mutant: refracted_color checks only the depth
RefractShortCircuitNoCoef(material, remaining) == remaining = 0

\* refracted_color: equal(material.transparency, 0.0) || remaining == 0
RefractShortCircuit(material, remaining) ==
    equal(material.transparency, 0) \/ remaining = 0

\* What a ray meets: nothing, or a surface with a material; tir says that
\* sin2_t > 1 at the hit, reflect_to / refract_to name the reflected and the
\* refracted ray.  Fields the code never reads for the material are fixed.
RayOutcomes ==
    { o \in [hit : BOOLEAN, material : Materials, tir : BOOLEAN,
             reflect_to : Rays, refract_to : Rays] :
        LET m == o.material
            first == [reflective |-> 0, transparency |-> 0]
        IN  /\ (~o.hit) => (m = first /\ ~o.tir)
            /\ (~o.hit \/ equal(m.reflective, 0)) => o.reflect_to = 1
            /\ equal(m.transparency, 0) => ~o.tir
            /\ (~o.hit \/ equal(m.transparency, 0) \/ o.tir) => o.refract_to = 1 }

\* Computations::schlick: 1.0 under total internal reflection, below 1
\* otherwise.
schlick(o) == IF o.tir THEN ONE ELSE ONE \div 2

\* The light's contribution at a hit (Material::lighting summed over
\* lights): 1.0
Surface == 4 ^ MaxRemaining

NewFrame(ray, remaining) ==
    [ray |-> ray, remaining |-> remaining, stage |-> "intersect",
     reflected |-> Black, refracted |-> Black,
     reflCalled |-> FALSE, refrCalled |-> FALSE]

Top == stack[Len(stack)]

SetTop(f) == [stack EXCEPT ![Len(stack)] = f]

\* A color_at call returns color to its caller: reflected_color scales it by
\* reflective, refracted_color by transparency, and the caller goes on.
Return(color) ==
    LET rest == SubSeq(stack, 1, Len(stack) - 1)
    IN  IF rest = <<>>
        THEN /\ stack' = <<>>
             /\ shadeResult' = color
             /\ spc' = "done"
        ELSE LET p == rest[Len(rest)]
                 m == world[p.ray].material
                 q == IF p.stage = "reflect_wait"
                      THEN [p EXCEPT !.reflected = ColorMul(color, m.reflective),
                                     !.stage = "refract"]
                      ELSE [p EXCEPT !.refracted = ColorMul(color, m.transparency),
                                     !.stage = "combine"]
             IN  /\ stack' = [rest EXCEPT ![Len(rest)] = q]
                 /\ UNCHANGED <<shadeResult, spc>>

ShadeIdle ==
    /\ spc = "idle"
    /\ world = <<>>
    /\ depth0 = 0
    /\ stack = <<>>
    /\ shadeResult = Black

ShadeInit ==
    /\ spc = "running"
    /\ world \in [Rays -> RayOutcomes]
    /\ depth0 \in 0..MaxRemaining
    /\ stack = <<NewFrame(1, depth0)>>
    /\ shadeResult = Black

\* color_at: intersect, hit is None
ColorAtMiss ==
    /\ spc = "running"
    /\ Top.stage = "intersect"
    /\ ~world[Top.ray].hit
    /\ Return(Black)
    /\ UNCHANGED <<world, depth0>>
    /\ UNCHANGED <<ivars, rvars, ovars, bvars, gvars, pvars, hvars, kvars>>

\* color_at: intersect, hit is Some; prepare_computations, shade_hit starts
ColorAtHit ==
    /\ spc = "running"
    /\ Top.stage = "intersect"
    /\ world[Top.ray].hit
    /\ stack' = SetTop([Top EXCEPT !.stage = "reflect"])
    /\ UNCHANGED <<spc, world, depth0, shadeResult>>
    /\ UNCHANGED <<ivars, rvars, ovars, bvars, gvars, pvars, hvars, kvars>>

\* reflected_color up to its call of color_at
ReflectedColor ==
    /\ spc = "running"
    /\ Top.stage = "reflect"
    /\ LET o == world[Top.ray]
       IN  IF ReflectShortCircuit(o.material, Top.remaining)
           THEN stack' = SetTop([Top EXCEPT !.reflected = Black,
                                            !.stage = "refract"])
           ELSE stack' = Append(SetTop([Top EXCEPT !.reflCalled = TRUE,
                                                   !.stage = "reflect_wait"]),
                                NewFrame(o.reflect_to, Top.remaining - 1))
    /\ UNCHANGED <<spc, world, depth0, shadeResult>>
    /\ UNCHANGED <<ivars, rvars, ovars, bvars, gvars, pvars, hvars, kvars>>

\* refracted_color up to its call of color_at
RefractedColor ==
    /\ spc = "running"
    /\ Top.stage = "refract"
    /\ LET o == world[Top.ray]
       IN  IF RefractShortCircuit(o.material, Top.remaining) \/ o.tir
           THEN stack' = SetTop([Top EXCEPT !.refracted = Black,
                                            !.stage = "combine"])
           ELSE stack' = Append(SetTop([Top EXCEPT !.refrCalled = TRUE,
                                                   !.stage = "refract_wait"]),
                                NewFrame(o.refract_to, Top.remaining - 1))
    /\ UNCHANGED <<spc, world, depth0, shadeResult>>
    /\ UNCHANGED <<ivars, rvars, ovars, bvars, gvars, pvars, hvars, kvars>>

\* a shade_hit that blends as soon as one of the two coefficients is set
shade_hit_blends_either(material, surface, reflected, refracted, reflectance) ==
    IF material.reflective > 0 \/ material.transparency > 0
    THEN surface + ColorMul(reflected, reflectance)
                 + ColorMul(refracted, ONE - reflectance)
    ELSE surface + reflected + refracted

\* the last lines of shade_hit: the color it returns
shade_hit(material, surface, reflected, refracted, reflectance) ==
    IF material.reflective > 0 /\ material.transparency > 0
    THEN surface + ColorMul(reflected, reflectance)
                 + ColorMul(refracted, ONE - reflectance)
    ELSE surface + reflected + refracted

\* shade_hit combines surface, reflected and refracted; color_at returns
ShadeHit ==
    /\ spc = "running"
    /\ Top.stage = "combine"
    /\ LET o == world[Top.ray]
       IN  Return(shade_hit(o.material, Surface, Top.reflected, Top.refracted,
                            schlick(o)))
    /\ UNCHANGED <<world, depth0>>
    /\ UNCHANGED <<ivars, rvars, ovars, bvars, gvars, pvars, hvars, kvars>>

ShadeNext ==
    \/ ColorAtMiss
    \/ ColorAtHit
    \/ ReflectedColor
    \/ RefractedColor
    \/ ShadeHit

ShadeSpecInit ==
    /\ ShadeInit
    /\ BoxIdle
    /\ GroupIdle
    /\ PrepareIdle
    /\ OptsIdle
    /\ IntersectIdle
    /\ RenderIdle
    /\ ShadowIdle
    /\ ConeIdle

ShadeSpec == ShadeSpecInit /\ [][ShadeNext]_vars

\* ------------------------------------------------------------------------
\* Properties of the color_at recursion
\* ------------------------------------------------------------------------

\* Steps a color_at call with the given remaining can take at most.
RECURSIVE CallBudget(_)
CallBudget(remaining) ==
    IF remaining < 0 THEN 0 ELSE 4 + 2 * CallBudget(remaining - 1)

\* Steps the frame itself (with the calls it has yet to make) can still take.
FrameBudget(f) ==
    CASE f.stage = "intersect" -> CallBudget(f.remaining)
      [] f.stage = "reflect" -> CallBudget(f.remaining) - 1
      [] f.stage = "reflect_wait" -> CallBudget(f.remaining - 1) + 2
      [] f.stage = "refract" -> CallBudget(f.remaining - 1) + 2
      [] f.stage = "refract_wait" -> 1
      [] f.stage = "combine" -> 1

RECURSIVE StackBudget(_)
StackBudget(st) ==
    IF st = <<>> THEN 0 ELSE FrameBudget(Head(st)) + StackBudget(Tail(st))

\* C4: color_at(ray, d) terminates: every step of the recursion keeps the
\* nesting depth of color_at calls within d + 1, every nested call has a
\* remaining one less than its caller's, and every step strictly lowers a
\* non-negative bound on the steps still to come.
C4_ColorAtTerminates ==
    [][ /\ Len(stack') <= depth0 + 1
        /\ \A k \in 1..Len(stack') : stack'[k].remaining = depth0 - (k - 1)
        /\ StackBudget(stack') >= 0
        /\ StackBudget(stack') < StackBudget(stack) ]_vars

\* two facing mirrors, recursion at its deepest
C4_Witness ==
    /\ spc = "running"
    /\ depth0 = MaxRemaining
    /\ Len(stack) = depth0 + 1
    /\ world[1].reflect_to = 2 /\ world[2].reflect_to = 1
    /\ \A r \in {1, 2} : world[r].hit /\ world[r].material.reflective = ONE
    /\ Top.stage = "combine"

\* C5: a reflected_color call with remaining = 0 or reflective = 0 has
\* returned black and has not called color_at; the same for refracted_color
\* with remaining = 0 or transparency = 0.
C5_ShortCircuitToBlack ==
    \A k \in 1..Len(stack) :
        LET f == stack[k]
            m == world[f.ray].material
        IN  /\ (f.remaining = 0 \/ m.reflective = 0) =>
                /\ f.stage # "reflect_wait"
                /\ ~f.reflCalled
                /\ f.reflected = Black
            /\ (f.remaining = 0 \/ m.transparency = 0) =>
                /\ f.stage # "refract_wait"
                /\ ~f.refrCalled
                /\ f.refracted = Black

\* a mirror reached with remaining = 0, and a matte surface with remaining
\* left: both reflected_color calls are over
C5_Witness ==
    /\ spc = "running"
    /\ Len(stack) = 2
    /\ stack[1].remaining = 1 /\ stack[2].remaining = 0
    /\ world[stack[1].ray].material = [reflective |-> 0, transparency |-> ONE]
    /\ stack[1].stage = "refract_wait" /\ ~stack[1].reflCalled
    /\ world[stack[2].ray].material = [reflective |-> ONE, transparency |-> 0]
    /\ stack[2].stage = "combine" /\ ~stack[2].reflCalled
    /\ stack[2].reflected = Black

\* ------------------------------------------------------------------------
\* Specification of the intersection pipeline
\* ------------------------------------------------------------------------
IntersectInit ==
    /\ ipc = "start"
    /\ operation \in Operations
    /\ xs \in SeqsUpTo(Intersection, MaxLen)
    /\ sorted = <<>>
    /\ hitResult = <<>>
    /\ filtered = <<>>
    /\ rule = NoRule

\* intersections(&xs)
Intersections ==
    /\ ipc = "start"
    /\ sorted' \in intersections(xs)
    /\ ipc' = "sorted"
    /\ UNCHANGED <<operation, xs, hitResult, filtered, rule>>
    /\ UNCHANGED <<svars, rvars, ovars, bvars, gvars, pvars, hvars, kvars>>

\* hit(&xs) on the sorted list, as World::color_at calls it
Hit ==
    /\ ipc = "sorted"
    /\ hitResult' = hit(sorted)
    /\ ipc' = "hit"
    /\ UNCHANGED <<operation, xs, sorted, filtered, rule>>
    /\ UNCHANGED <<svars, rvars, ovars, bvars, gvars, pvars, hvars, kvars>>

\* self.filter_intersections(xs) on the sorted list, as Csg::local_intersect
\* calls it
FilterIntersections ==
    /\ ipc = "hit"
    /\ filtered' = filter_intersections(operation, sorted)
    /\ ipc' = "filtered"
    /\ UNCHANGED <<operation, xs, sorted, hitResult, rule>>
    /\ UNCHANGED <<svars, rvars, ovars, bvars, gvars, pvars, hvars, kvars>>

\* operation.intersection_allowed(lhit, inl, inr)
EvaluateRule ==
    /\ ipc = "filtered"
    /\ \E lhit \in BOOLEAN, inl \in BOOLEAN, inr \in BOOLEAN :
          rule' = [lhit |-> lhit, inl |-> inl, inr |-> inr,
                   result |-> intersection_allowed(operation, lhit, inl, inr)]
    /\ ipc' = "evaluated"
    /\ UNCHANGED <<operation, xs, sorted, hitResult, filtered>>
    /\ UNCHANGED <<svars, rvars, ovars, bvars, gvars, pvars, hvars, kvars>>

IntersectNext ==
    \/ Intersections
    \/ Hit
    \/ FilterIntersections
    \/ EvaluateRule

IntersectSpecInit ==
    /\ IntersectInit
    /\ BoxIdle
    /\ GroupIdle
    /\ PrepareIdle
    /\ OptsIdle
    /\ ShadeIdle
    /\ RenderIdle
    /\ ShadowIdle
    /\ ConeIdle

IntersectSpec == IntersectSpecInit /\ [][IntersectNext]_vars

\* ------------------------------------------------------------------------
\* Properties of the intersection pipeline
\* ------------------------------------------------------------------------

\* The 24-row table of the Csg rule (rows whose decision is "keep"), as
\* <<operation, lhit, inl, inr>>.
KeepTable ==
    { <<"Union", TRUE, TRUE, FALSE>>, <<"Union", TRUE, FALSE, FALSE>>,
      <<"Union", FALSE, FALSE, TRUE>>, <<"Union", FALSE, FALSE, FALSE>>,
      <<"Intersection", TRUE, TRUE, TRUE>>, <<"Intersection", TRUE, FALSE, TRUE>>,
      <<"Intersection", FALSE, TRUE, TRUE>>, <<"Intersection", FALSE, TRUE, FALSE>>,
      <<"Difference", TRUE, TRUE, FALSE>>, <<"Difference", TRUE, FALSE, FALSE>>,
      <<"Difference", FALSE, TRUE, TRUE>>, <<"Difference", FALSE, TRUE, FALSE>> }

\* C1: every evaluation of intersection_allowed(op, lhit, inl, inr) returns
\* the decision of the table row for (op, lhit, inl, inr): the row is one of
\* the twelve "keep" rows exactly when the result is true.
C1_RuleMatchesTable ==
    ipc = "evaluated" =>
        rule.result = (<<operation, rule.lhit, rule.inl, rule.inr>> \in KeepTable)

C1_Witness ==
    /\ ipc = "evaluated"
    /\ operation = "Difference"
    /\ rule = [lhit |-> FALSE, inl |-> TRUE, inr |-> TRUE, result |-> TRUE]

\* Number of hits among list[1..k-1] that belong (side = TRUE) or do not
\* belong (side = FALSE) to the left subtree.
HitsBefore(list, k, side) ==
    Cardinality({j \in 1..(k - 1) : (list[j].object \in LeftShapes) = side})

\* Keep decision of hit k by the table, with the inside-left / inside-right
\* flags being the parity of the left / right hits that precede it.
KeptAt(op, list, k) ==
    <<op, list[k].object \in LeftShapes,
      HitsBefore(list, k, TRUE) % 2 = 1,
      HitsBefore(list, k, FALSE) % 2 = 1>> \in KeepTable

\* The entries of list at the indices in idx, in list order.
RECURSIVE SelectIdx(_, _, _)
SelectIdx(list, idx, k) ==
    IF k > Len(list) THEN <<>>
    ELSE (IF k \in idx THEN <<list[k]>> ELSE <<>>) \o SelectIdx(list, idx, k + 1)

\* C2: filter_intersections returns exactly the hits the rule keeps, in
\* input order, where the flags seen by a hit are those produced by
\* flipping inl for every earlier left hit and inr for every earlier other
\* hit, starting from inl = inr = false.
C2_FilterWalksList ==
    ipc \in {"filtered", "evaluated"} =>
        filtered = SelectIdx(sorted,
                             {k \in 1..Len(sorted) : KeptAt(operation, sorted, k)}, 1)

C2_Witness ==
    /\ ipc = "filtered"
    /\ operation = "Difference"
    /\ Len(sorted) = 4
    /\ sorted[1].object = "s1" /\ sorted[2].object = "s2"
    /\ sorted[3].object = "s3" /\ sorted[4].object = "s2"
    /\ filtered = <<sorted[1], sorted[2]>>

\* C3: hit(intersections(xs)) is an entry of xs whose t is the least
\* non-negative t of xs, and is None exactly when xs has no non-negative t.
C3_HitIsLeastNonNegative ==
    ipc \in {"hit", "filtered", "evaluated"} =>
        LET nonneg == {xs[i].t : i \in {j \in 1..Len(xs) : xs[j].t >= 0}}
        IN  IF nonneg = {}
            THEN hitResult = <<>>
            ELSE /\ Len(hitResult) = 1
                 /\ \E i \in 1..Len(xs) : xs[i] = hitResult[1]
                 /\ hitResult[1].t = SetMin(nonneg)

C3_Witness ==
    /\ ipc = "hit"
    /\ Len(xs) = 3
    /\ xs[1].t = 1 /\ xs[2].t = -1 /\ xs[3].t = 0
    /\ hitResult = <<xs[3]>>

\* ------------------------------------------------------------------------
\* Camera::render and Camera::render_multithreaded   (camera.rs, canvas.rs)
\*
\* A ray through a pixel is named by its sub-pixel coordinates in eighths
\* of a pixel; a color is one channel, in units that make the averages of
\* up to sixteen samples exact.
\* ------------------------------------------------------------------------
AAModes == {"X1", "X2", "X4", "X8", "X16"}

\* Camera::get_offsets, in eighths of a pixel
\* (X16 uses sixteenths in the source: 0.125 .. 0.875 are odd eighths)
get_offsets(samples) ==
    CASE samples = "X1" -> << <<4, 4>> >>
      [] samples = "X2" -> << <<2, 4>>, <<6, 4>> >>
      [] samples = "X4" -> << <<2, 2>>, <<6, 2>>, <<2, 6>>, <<6, 6>> >>
      [] samples = "X8" -> << <<2, 2>>, <<4, 2>>, <<6, 2>>, <<2, 4>>,
                              <<6, 4>>, <<2, 6>>, <<4, 6>>, <<6, 6>> >>
      [] samples = "X16" -> << <<1, 1>>, <<3, 1>>, <<5, 1>>, <<7, 1>>,
                               <<1, 3>>, <<3, 3>>, <<5, 3>>, <<7, 3>>,
                               <<1, 5>>, <<3, 5>>, <<5, 5>>, <<7, 5>>,
                               <<1, 7>>, <<3, 7>>, <<5, 7>>, <<7, 7>> >>

\* Camera::ray_for_pixel: the ray through (px + 0.5, py + 0.5)
ray_for_pixel(px, py) == <<8 * px + 4, 8 * py + 4>>

\* Camera::rays_for_pixel: one ray per offset of the antialiasing mode
rays_for_pixel(cam, px, py) ==
    LET offsets == get_offsets(cam.aa_samples)
    IN  [k \in 1..Len(offsets) |->
            <<8 * px + offsets[k][1], 8 * py + offsets[k][2]>>]

\* World::color_at(ray, MAX_RECURSION_DEPTH) panics for the rays through
\* the pixels in sc.panics (for instance a NaN t reaching the unwrap of
\* partial_cmp in intersections()) ...
ColorAtPanics(sc, ray) == <<ray[1] \div 8, ray[2] \div 8>> \in sc.panics

\* ... and otherwise returns a color that depends on the world and the ray
\* only.
ColorAt(sc, ray) == 16 * (1 + ((ray[1] + 3 * ray[2] + sc.tint) % 5))

RECURSIVE SeqSum(_)
SeqSum(q) == IF q = <<>> THEN 0 ELSE Head(q) + SeqSum(Tail(q))

\* Color::average: the sum times 1 / len
ColorAverage(colors) == SeqSum(colors) \div Len(colors)

\* Canvas::pixel_idx (0-based) and its two assertions
pixel_idx(cam, x, y) == y * cam.hsize + x

PixelIdxPanics(cam, x, y) == ~(x < cam.hsize) \/ ~(y < cam.vsize)

\* Canvas::new: width * height black pixels
NewCanvas(cam) == [k \in 1..(cam.hsize * cam.vsize) |-> Black]

\* mutant: every worker's range ends at i * rows_per_thread + rows_per_thread
ThreadRangeNoRemainder(i, rows, num_threads) ==
    LET rows_per_thread == rows \div num_threads
    IN  [start |-> i * rows_per_thread,
         end |-> i * rows_per_thread + rows_per_thread]

\* mutant: the rows are divided rounding up
ThreadRangeRoundUp(i, rows, num_threads) ==
    LET rows_per_thread == (rows + num_threads - 1) \div num_threads
    IN  [start |-> i * rows_per_thread,
         end |-> IF i = num_threads - 1 THEN rows
                 ELSE i * rows_per_thread + rows_per_thread]

\* the row range worker i computes for itself
ThreadRange(i, rows, num_threads) ==
    LET rows_per_thread == rows \div num_threads
    IN  [start |-> i * rows_per_thread,
         end |-> IF i = num_threads - 1 THEN rows
                 ELSE i * rows_per_thread + rows_per_thread]

\* the color a worker pushes for pixel (x, y)
PixelColor(cam, sc, x, y) ==
    LET rays == rays_for_pixel(cam, x, y)
    IN  ColorAverage([k \in 1..Len(rays) |-> ColorAt(sc, rays[k])])

PixelPanics(cam, sc, x, y) ==
    LET rays == rays_for_pixel(cam, x, y)
    IN  \E k \in 1..Len(rays) : ColorAtPanics(sc, rays[k])

\* mutant: the coordinator reads res.colors without advancing i per row
ResultColorSameRow(cam, res, x, y) == res.colors[x + 1]

\* the color the coordinator's loop reads for (x, y): res.colors[i], with i
\* counting the pixels of the rows res.start..y in row order (1-based here)
ResultColor(cam, res, x, y) == res.colors[(y - res.start) * cam.hsize + x + 1]

\* the coordinator's loop over a received result panics: a set_pixel
\* assertion fails or res.colors is too short
AssemblePanics(cam, res) ==
    \E y \in res.start..(res.end - 1), x \in 0..(cam.hsize - 1) :
        \/ PixelIdxPanics(cam, x, y)
        \/ (y - res.start) * cam.hsize + x + 1 > Len(res.colors)

InResult(cam, res, k) ==
    LET y == (k - 1) \div cam.hsize
    IN  res.start <= y /\ y < res.end

\* image after the coordinator's loop over a received result
Assemble(cam, img, res) ==
    [k \in 1..Len(img) |->
        IF InResult(cam, res, k)
        THEN ResultColor(cam, res, (k - 1) % cam.hsize, (k - 1) \div cam.hsize)
        ELSE img[k]]

\* mutant: the receive loop runs one time too few
RecvLoopDoneEarly(cam, n) == n >= cam.num_threads - 1

\* for _ in 0..num_threads
RecvLoopDone(cam, n) == n >= cam.num_threads

Workers == 0..(camera.num_threads - 1)

\* the name of the coordinator's own Sender, tx, in senders (the clones are
\* named by their worker)
TxHandle == 0 - 1

Scenes == [tint : 0..1, panics : {{}, {<<0, 0>>}, {<<0, 1>>}}]

RenderInit ==
    /\ camera \in [hsize : 1..MaxH, vsize : 1..MaxV,
                   num_threads : 1..MaxThreads, aa_samples : AAModes]
    /\ scene \in Scenes
    /\ seqpc = "start"
    /\ seqImage = <<>>
    /\ cpc = "start"
    /\ spawned = 0
    /\ received = 0
    /\ joined = 0
    /\ wpc = [i \in Workers |-> "unspawned"]
    /\ wres = [i \in Workers |-> [start |-> 0, end |-> 0, colors |-> <<>>]]
    /\ channel = <<>>
    /\ senders = {}
    /\ image = <<>>
    /\ writes = <<>>
    /\ computed = <<>>

\* Camera::render: the whole sequential loop
Render ==
    /\ seqpc = "start"
    /\ IF \E y \in 0..(camera.vsize - 1), x \in 0..(camera.hsize - 1) :
              ColorAtPanics(scene, ray_for_pixel(x, y))
       THEN /\ seqpc' = "panicked"
            /\ UNCHANGED seqImage
       ELSE /\ seqpc' = "returned"
            /\ seqImage' = [k \in 1..(camera.hsize * camera.vsize) |->
                              ColorAt(scene, ray_for_pixel((k - 1) % camera.hsize,
                                                           (k - 1) \div camera.hsize))]
    /\ UNCHANGED <<camera, scene, cpc, spawned, received, joined, wpc, wres,
                   channel, senders, image, writes, computed>>
    /\ UNCHANGED <<ivars, svars, ovars, bvars, gvars, pvars, hvars, kvars>>

\* render_multithreaded: Canvas::new, mpsc::channel
StartRender ==
    /\ seqpc # "start"
    /\ cpc = "start"
    /\ cpc' = "spawn"
    /\ image' = NewCanvas(camera)
    /\ writes' = [k \in 1..(camera.hsize * camera.vsize) |-> 0]
    /\ computed' = [k \in 1..(camera.hsize * camera.vsize) |-> {}]
    /\ senders' = {TxHandle}
    /\ UNCHANGED <<camera, scene, seqpc, seqImage, spawned, received, joined,
                   wpc, wres, channel>>
    /\ UNCHANGED <<ivars, svars, ovars, bvars, gvars, pvars, hvars, kvars>>

\* one round of the spawn loop: tx.clone(), thread::spawn
Spawn ==
    /\ cpc = "spawn"
    /\ spawned < camera.num_threads
    /\ wpc' = [wpc EXCEPT ![spawned] = "spawned"]
    /\ senders' = senders \cup {spawned}
    /\ spawned' = spawned + 1
    /\ UNCHANGED <<camera, scene, seqpc, seqImage, cpc, received, joined,
                   wres, channel, image, writes, computed>>
    /\ UNCHANGED <<ivars, svars, ovars, bvars, gvars, pvars, hvars, kvars>>

\* the spawn loop is over; the coordinator turns to rx.recv()
SpawnDone ==
    /\ cpc = "spawn"
    /\ spawned = camera.num_threads
    /\ cpc' = "recv"
    /\ UNCHANGED <<camera, scene, seqpc, seqImage, spawned, received, joined,
                   wpc, wres, channel, senders, image, writes, computed>>
    /\ UNCHANGED <<ivars, svars, ovars, bvars, gvars, pvars, hvars, kvars>>

\* worker i starts: computes its range and creates its result buffer
WorkerStart(i) ==
    /\ wpc[i] = "spawned"
    /\ LET r == ThreadRange(i, camera.vsize, camera.num_threads)
       IN  wres' = [wres EXCEPT ![i] = [start |-> r.start, end |-> r.end,
                                        colors |-> <<>>]]
    /\ wpc' = [wpc EXCEPT ![i] = "running"]
    /\ UNCHANGED <<camera, scene, seqpc, seqImage, cpc, spawned, received,
                   joined, channel, senders, image, writes, computed>>
    /\ UNCHANGED <<ivars, svars, ovars, bvars, gvars, pvars, hvars, kvars>>

\* the row worker i computes next
NextRow(i) == wres[i].start + (Len(wres[i].colors) \div camera.hsize)

\* worker i computes one row into its buffer, or panics in color_at
WorkerRow(i) ==
    /\ wpc[i] = "running"
    /\ NextRow(i) < wres[i].end
    /\ LET y == NextRow(i)
           row == [k \in 1..camera.hsize |-> PixelColor(camera, scene, k - 1, y)]
       IN  IF \E x \in 0..(camera.hsize - 1) : PixelPanics(camera, scene, x, y)
           THEN /\ wpc' = [wpc EXCEPT ![i] = "panicked"]
                /\ senders' = senders \ {i}
                /\ UNCHANGED <<wres, computed>>
           ELSE /\ wres' = [wres EXCEPT ![i].colors = @ \o row]
                /\ computed' =
                      [k \in 1..Len(computed) |->
                          IF (k - 1) \div camera.hsize = y
                          THEN computed[k] \cup
                                  {[worker |-> i, color |-> row[((k - 1) % camera.hsize) + 1]]}
                          ELSE computed[k]]
                /\ UNCHANGED <<wpc, senders>>
    /\ UNCHANGED <<camera, scene, seqpc, seqImage, cpc, spawned, received,
                   joined, channel, image, writes>>
    /\ UNCHANGED <<ivars, svars, ovars, bvars, gvars, pvars, hvars, kvars>>

\* worker i sends its result: tx_ref.send(result).unwrap().  The send fails,
\* and unwrap panics, when the Receiver is gone; the unwinding drops tx_ref.
\* After a send that went through the thread is still alive, and so is its
\* Sender.
WorkerSend(i) ==
    /\ wpc[i] = "running"
    /\ NextRow(i) >= wres[i].end
    /\ IF cpc \in {"returned", "panicked"}
       THEN /\ wpc' = [wpc EXCEPT ![i] = "panicked"]
            /\ senders' = senders \ {i}
            /\ UNCHANGED channel
       ELSE /\ wpc' = [wpc EXCEPT ![i] = "sent"]
            /\ channel' = Append(channel, wres[i])
            /\ UNCHANGED senders
    /\ UNCHANGED <<camera, scene, seqpc, seqImage, cpc, spawned, received,
                   joined, wres, image, writes, computed>>
    /\ UNCHANGED <<ivars, svars, ovars, bvars, gvars, pvars, hvars, kvars>>

\* worker i ends: the closure returns, tx_ref is dropped, the thread exits
WorkerExit(i) ==
    /\ wpc[i] = "sent"
    /\ wpc' = [wpc EXCEPT ![i] = "exited"]
    /\ senders' = senders \ {i}
    /\ UNCHANGED <<camera, scene, seqpc, seqImage, cpc, spawned, received,
                   joined, wres, channel, image, writes, computed>>
    /\ UNCHANGED <<ivars, svars, ovars, bvars, gvars, pvars, hvars, kvars>>

\* one round of the receive loop: rx.recv().expect(..), then set_pixel for
\* every pixel of the rows res.start..res.end.  recv blocks while the
\* channel is empty and a Sender is alive, and fails when none is.
Recv ==
    /\ cpc = "recv"
    /\ ~RecvLoopDone(camera, received)
    /\ channel # <<>> \/ senders = {}
    /\ IF channel = <<>>
       THEN /\ cpc' = "panicked"
            /\ UNCHANGED <<channel, received, image, writes>>
       ELSE LET res == Head(channel)
            IN  /\ channel' = Tail(channel)
                /\ IF AssemblePanics(camera, res)
                   THEN /\ cpc' = "panicked"
                        /\ UNCHANGED <<received, image, writes>>
                   ELSE /\ image' = Assemble(camera, image, res)
                        /\ writes' = [k \in 1..Len(writes) |->
                                        IF InResult(camera, res, k)
                                        THEN writes[k] + 1 ELSE writes[k]]
                        /\ received' = received + 1
                        /\ UNCHANGED cpc
    /\ UNCHANGED <<camera, scene, seqpc, seqImage, spawned, joined, wpc, wres,
                   senders, computed>>
    /\ UNCHANGED <<ivars, svars, ovars, bvars, gvars, pvars, hvars, kvars>>

\* the receive loop is over; the coordinator turns to the handles
RecvDone ==
    /\ cpc = "recv"
    /\ RecvLoopDone(camera, received)
    /\ cpc' = "join"
    /\ UNCHANGED <<camera, scene, seqpc, seqImage, spawned, received, joined,
                   wpc, wres, channel, senders, image, writes, computed>>
    /\ UNCHANGED <<ivars, svars, ovars, bvars, gvars, pvars, hvars, kvars>>

\* one round of the join loop: handle.join().expect(..) waits for the
\* thread to end and panics when the thread panicked
Join ==
    /\ cpc = "join"
    /\ joined < camera.num_threads
    /\ wpc[joined] \in {"exited", "panicked"}
    /\ IF wpc[joined] = "panicked"
       THEN /\ cpc' = "panicked"
            /\ UNCHANGED joined
       ELSE /\ joined' = joined + 1
            /\ UNCHANGED cpc
    /\ UNCHANGED <<camera, scene, seqpc, seqImage, spawned, received, wpc,
                   wres, channel, senders, image, writes, computed>>
    /\ UNCHANGED <<ivars, svars, ovars, bvars, gvars, pvars, hvars, kvars>>

\* render_multithreaded returns image; tx and rx are dropped
ReturnImage ==
    /\ cpc = "join"
    /\ joined = camera.num_threads
    /\ cpc' = "returned"
    /\ senders' = senders \ {TxHandle}
    /\ UNCHANGED <<camera, scene, seqpc, seqImage, spawned, received, joined,
                   wpc, wres, channel, image, writes, computed>>
    /\ UNCHANGED <<ivars, svars, ovars, bvars, gvars, pvars, hvars, kvars>>

Coordinator ==
    \/ StartRender
    \/ Spawn
    \/ SpawnDone
    \/ Recv
    \/ RecvDone
    \/ Join
    \/ ReturnImage

Worker(i) ==
    \/ WorkerStart(i)
    \/ WorkerRow(i)
    \/ WorkerSend(i)
    \/ WorkerExit(i)

RenderNext ==
    \/ Render
    \/ StartRender
    \/ Spawn
    \/ SpawnDone
    \/ Recv
    \/ RecvDone
    \/ Join
    \/ ReturnImage
    \/ \E i \in Workers : WorkerStart(i)
    \/ \E i \in Workers : WorkerRow(i)
    \/ \E i \in Workers : WorkerSend(i)
    \/ \E i \in Workers : WorkerExit(i)

RenderSpecInit ==
    /\ RenderInit
    /\ BoxIdle
    /\ GroupIdle
    /\ PrepareIdle
    /\ OptsIdle
    /\ IntersectIdle
    /\ ShadeIdle
    /\ ShadowIdle
    /\ ConeIdle

RenderSpec == RenderSpecInit /\ [][RenderNext]_vars

\* The operating system runs every thread that can run: the caller of
\* render, the coordinator and each worker.
RenderFairSpec ==
    /\ RenderSpec
    /\ WF_vars(Render)
    /\ WF_vars(Coordinator)
    /\ \A i \in 0..(MaxThreads - 1) : WF_vars(i \in Workers /\ Worker(i))

\* ------------------------------------------------------------------------
\* Properties of the renderers
\* ------------------------------------------------------------------------
Started(i) == wpc[i] \in {"running", "sent", "exited", "panicked"}

\* worker i's send went through
Sent(i) == wpc[i] \in {"sent", "exited"}

RowsOf(i) == wres[i].start..(wres[i].end - 1)

PixelRow(k) == (k - 1) \div camera.hsize

\* C6: once the workers have computed their ranges, worker i < n-1 has
\* rows [i*floor(rows/n), (i+1)*floor(rows/n)), the last worker has
\* [(n-1)*floor(rows/n), rows), and the ranges are contiguous, pairwise
\* disjoint and cover exactly 0..rows-1 (also when n > rows).
C6_RowRangesPartition ==
    LET n == camera.num_threads
        rows == camera.vsize
        q == rows \div n
    IN  /\ \A i \in Workers : Started(i) =>
              /\ wres[i].start = i * q
              /\ wres[i].end = IF i < n - 1 THEN (i + 1) * q ELSE rows
        /\ (cpc # "idle" /\ \A i \in Workers : Started(i)) =>
              /\ \A i \in Workers : i < n - 1 => wres[i].end = wres[i + 1].start
              /\ \A i, j \in Workers : i # j => RowsOf(i) \cap RowsOf(j) = {}
              /\ UNION {RowsOf(i) : i \in Workers} = 0..(rows - 1)

\* more workers than rows with a remainder-free split of zero rows each,
\* and a split with a remainder
C6_Witness ==
    /\ camera.num_threads = 3
    /\ camera.vsize = 2
    /\ \A i \in Workers : Started(i)
    /\ RowsOf(0) = {} /\ RowsOf(1) = {} /\ RowsOf(2) = {0, 1}

\* C7: the image changes only by the coordinator's set_pixel calls: a pixel
\* whose rows' result has not been received yet is still black and
\* unwritten, whatever the workers have done; every worker's buffer holds
\* colors of its own rows only; no pixel is ever written twice; and in the
\* returned image every pixel has been written exactly once, with the one
\* color its owning worker pushed for it.
C7_OnlyCoordinatorWritesOnce ==
    cpc \notin {"idle", "start"} =>
        /\ \A k \in 1..Len(image) : writes[k] <= 1
        /\ \A k \in 1..Len(image) : writes[k] = 0 => image[k] = Black
        /\ \A i \in Workers : \A k \in 1..Len(image) :
              (Started(i) /\ PixelRow(k) \in RowsOf(i)
                /\ (~Sent(i) \/ \E j \in 1..Len(channel) : channel[j] = wres[i]))
              => writes[k] = 0
        /\ \A i \in Workers :
              Len(wres[i].colors) <= Cardinality(RowsOf(i)) * camera.hsize
        /\ \A k \in 1..Len(image) : \A e \in computed[k] :
              PixelRow(k) \in RowsOf(e.worker)
        /\ cpc = "returned" =>
              \A k \in 1..Len(image) :
                  /\ writes[k] = 1
                  /\ \E e \in computed[k] :
                        computed[k] = {e} /\ image[k] = e.color

C7_Witness ==
    /\ cpc = "returned"
    /\ camera = [hsize |-> 2, vsize |-> 3, num_threads |-> 2, aa_samples |-> "X4"]
    /\ \A k \in 1..Len(image) : writes[k] = 1

\* C8 as stated: no set_pixel happens before every worker has been joined.
C8_NoWriteBeforeJoin ==
    (cpc \notin {"idle", "start"} /\ \E k \in 1..Len(writes) : writes[k] > 0)
        => joined = camera.num_threads

\* C8, amended: the coordinator writes a pixel only after the worker owning
\* its row has sent its result (the worker's thread may still be alive), and
\* it joins the workers only after every pixel has been written: all writes
\* precede all joins; a worker counted as joined has ended.
C8_WritesAfterSendBeforeJoin ==
    cpc \notin {"idle", "start"} =>
        /\ \A k \in 1..Len(writes) : writes[k] > 0 =>
              \E i \in Workers : Sent(i) /\ PixelRow(k) \in RowsOf(i)
        /\ joined > 0 => \A k \in 1..Len(writes) : writes[k] = 1
        /\ \A i \in Workers : i < joined => wpc[i] = "exited"

\* a result has been written while its worker's thread has not ended yet,
\* another worker is still computing and nothing has been joined
C8_Witness ==
    /\ cpc = "recv"
    /\ received = 1
    /\ joined = 0
    /\ \E k \in 1..Len(writes) :
          /\ writes[k] = 1
          /\ \E i \in Workers : wpc[i] = "sent" /\ PixelRow(k) \in RowsOf(i)
    /\ \E i \in Workers : wpc[i] = "running"

\* C9: every render_multithreaded call eventually returns the image or
\* panics, also when a worker panics before it sends its result.
C9_ReturnsOrPanics == <>(cpc \in {"returned", "panicked"})

\* the colors of the image a render of (scene, camera) is to produce: per
\* pixel, the average of color_at over the rays of the antialiasing mode
ExpectedImage ==
    [k \in 1..(camera.hsize * camera.vsize) |->
        LET rays == rays_for_pixel(camera, (k - 1) % camera.hsize,
                                   (k - 1) \div camera.hsize)
        IN  SeqSum([j \in 1..Len(rays) |-> ColorAt(scene, rays[j])]) \div Len(rays)]

\* C10: the image render_multithreaded returns is determined by the world
\* and the camera: whatever the thread count and the order in which the
\* workers ran and their results arrived, it is the per-pixel average of
\* color_at over the camera's rays, and with AASamples::X1 it is the image
\* Camera::render returns.
C10_ImageIsFunctionOfWorldAndCamera ==
    cpc = "returned" =>
        /\ image = ExpectedImage
        /\ (camera.aa_samples = "X1" /\ seqpc = "returned") => image = seqImage

\* three workers with one row each, one sample per pixel
C10_Witness ==
    /\ cpc = "returned"
    /\ seqpc = "returned"
    /\ camera.num_threads = 3
    /\ camera.vsize = 3
    /\ camera.hsize = 2
    /\ camera.aa_samples = "X1"
    /\ image = seqImage
    /\ image[1] # image[2]

\* ------------------------------------------------------------------------
\* RenderOpts: configuring the thread count  (camera.rs 221-253, 155-157)
\* ------------------------------------------------------------------------

\* a weakened guard: zero is let through
num_threads_assert_nonneg(n) == n >= 0

\* assert!(n > 0)
num_threads_assert(n) == n > 0

OptsInit ==
    /\ opc = "config"
    /\ render_opts = DefaultRenderOpts
    /\ optRows \in 0..MaxV
    /\ optRowsPerThread = 0
    /\ optsCall = 0 - 1

\* RenderOpts::num_threads(n): the assertion comes before the assignment
NumThreads ==
    /\ opc = "config"
    /\ \E n \in 0..MaxThreads :
          /\ optsCall' = n
          /\ IF num_threads_assert(n)
             THEN /\ render_opts' = [render_opts EXCEPT !.num_threads = n]
                  /\ UNCHANGED opc
             ELSE /\ opc' = "panicked"
                  /\ UNCHANGED render_opts
    /\ UNCHANGED <<optRows, optRowsPerThread>>
    /\ UNCHANGED <<ivars, svars, rvars, bvars, gvars, pvars, hvars, kvars>>

\* RenderOpts::aa_samples(samples)
AaSamples ==
    /\ opc = "config"
    /\ \E samples \in AAModes :
          render_opts' = [render_opts EXCEPT !.aa_samples = samples]
    /\ UNCHANGED <<opc, optRows, optRowsPerThread, optsCall>>
    /\ UNCHANGED <<ivars, svars, rvars, bvars, gvars, pvars, hvars, kvars>>

\* render_multithreaded: let rows_per_thread = rows / num_threads;
\* an integer division by zero panics
RowsPerThread ==
    /\ opc = "config"
    /\ IF render_opts.num_threads = 0
       THEN /\ opc' = "divzero"
            /\ UNCHANGED optRowsPerThread
       ELSE /\ opc' = "rendering"
            /\ optRowsPerThread' = optRows \div render_opts.num_threads
    /\ UNCHANGED <<render_opts, optRows, optsCall>>
    /\ UNCHANGED <<ivars, svars, rvars, bvars, gvars, pvars, hvars, kvars>>

OptsNext ==
    \/ NumThreads
    \/ AaSamples
    \/ RowsPerThread

OptsSpecInit ==
    /\ OptsInit
    /\ BoxIdle
    /\ GroupIdle
    /\ PrepareIdle
    /\ IntersectIdle
    /\ ShadeIdle
    /\ RenderIdle
    /\ ShadowIdle
    /\ ConeIdle

OptsSpec == OptsSpecInit /\ [][OptsNext]_vars

\* C11: RenderOpts::num_threads(0) panics and leaves the configured thread
\* count as it was, so the count is at least 1 in every reachable state and
\* the division rows / num_threads never divides by zero.
C11_ZeroThreadsFailsFast ==
    /\ [](/\ render_opts.num_threads >= 1
          /\ opc # "divzero"
          /\ (optsCall = 0 => opc = "panicked"))
    /\ [][opc' = "panicked" => render_opts' = render_opts]_vars

\* num_threads(0) was called on options whose count had been raised before
C11_Witness ==
    /\ opc = "panicked"
    /\ optsCall = 0
    /\ render_opts.num_threads > 1

\* ------------------------------------------------------------------------
\* f64 values: integers strictly between -INFINITY and INFINITY are exact
\* finite values; INFINITY, NEG_INFINITY and NAN stand for themselves.
\* ------------------------------------------------------------------------
INFINITY == 1000
NEG_INFINITY == 0 - INFINITY
NAN == 2 * INFINITY

\* the value of a let binding: The({e(v) : v \in {x}}) is e(x) with x
\* evaluated once
The(S) == CHOOSE v \in S : TRUE

FIsInf(a) == a = INFINITY \/ a = NEG_INFINITY

FSign(a) == IF a > 0 THEN 1 ELSE IF a < 0 THEN 0 - 1 ELSE 0

\* x + y
FAdd(x, y) ==
    The({ IF a = NAN \/ b = NAN THEN NAN
          ELSE IF FIsInf(a) /\ FIsInf(b) THEN (IF a = b THEN a ELSE NAN)
          ELSE IF FIsInf(a) THEN a
          ELSE IF FIsInf(b) THEN b
          ELSE a + b : a \in {x}, b \in {y} })

\* -x
FNeg(x) == The({ IF a = NAN THEN NAN ELSE 0 - a : a \in {x} })

\* x - y
FSub(x, y) == FAdd(x, FNeg(y))

\* x * y
FMul(x, y) ==
    The({ IF a = NAN \/ b = NAN THEN NAN
          ELSE IF FIsInf(a) \/ FIsInf(b)
               THEN (IF a = 0 \/ b = 0 THEN NAN ELSE FSign(a) * FSign(b) * INFINITY)
          ELSE a * b : a \in {x}, b \in {y} })

\* x / y for a divisor of 1 or -1
FDivUnit(x, y) == FMul(x, y)

\* x / 2.0.  The finite values halved are widths of bounding boxes: lengths
\* are kept in halves and the corners of the boxes built from shapes are
\* whole numbers, so a width is an even count of halves.
FHalf(x) == The({ IF a = NAN \/ FIsInf(a) THEN a ELSE a \div 2 : a \in {x} })

\* comparisons: every comparison with NaN is false
FGt(x, y) == \E a \in {x}, b \in {y} : a # NAN /\ b # NAN /\ a > b
FLt(x, y) == \E a \in {x}, b \in {y} : a # NAN /\ b # NAN /\ a < b
FLe(x, y) == \E a \in {x}, b \in {y} : a # NAN /\ b # NAN /\ a <= b

\* f64::max and f64::min return the other operand when one is NaN
FMax(x, y) ==
    The({ IF a = NAN THEN b ELSE IF b = NAN THEN a ELSE IF a > b THEN a ELSE b
          : a \in {x}, b \in {y} })
FMin(x, y) ==
    The({ IF a = NAN THEN b ELSE IF b = NAN THEN a ELSE IF a < b THEN a ELSE b
          : a \in {x}, b \in {y} })

\* ------------------------------------------------------------------------
\* Matrix: the transforms used are translations by integers composed with
\* reflections, p |-> s * p + t per axis with s in {1, -1}; on these the
\* f64 arithmetic of matrix.rs is exact.
\*
\* Lengths are kept in halves: the coordinates of a point, the offsets of a
\* translation and the parameter t along a ray count halves of a unit (the
\* midpoint of two whole coordinates is then a whole count).  Directions
\* and scale factors are plain numbers.
\* ------------------------------------------------------------------------
Axes == 1..3

\* Point::new(x, y, z)
PointNew(x, y, z) == <<2 * x, 2 * y, 2 * z>>

Identity == [s |-> <<1, 1, 1>>, t |-> <<0, 0, 0>>]

\* transform::translation(x, y, z)
translation(x, y, z) == [s |-> <<1, 1, 1>>, t |-> PointNew(x, y, z)]

\* transform::scaling(x, y, z) for x, y, z in {1, -1}
scaling(x, y, z) == [s |-> <<x, y, z>>, t |-> <<0, 0, 0>>]

\* &x * &y
MatMul(x, y) ==
    The({ [s |-> <<a.s[1] * b.s[1], a.s[2] * b.s[2], a.s[3] * b.s[3]>>,
           t |-> <<a.s[1] * b.t[1] + a.t[1],
                   a.s[2] * b.t[2] + a.t[2],
                   a.s[3] * b.t[3] + a.t[3]>>] : a \in {x}, b \in {y} })

\* Matrix::inverse
MatInverse(x) ==
    The({ [s |-> a.s,
           t |-> <<0 - (a.s[1] * a.t[1]), 0 - (a.s[2] * a.t[2]),
                   0 - (a.s[3] * a.t[3])>>] : a \in {x} })

\* entry (row, col) of the 4x4 matrix, rows 1..3, columns 1..4
MatAt(m, row, col) ==
    IF col = 4 THEN m.t[row] ELSE IF col = row THEN m.s[row] ELSE 0

\* one row of &Matrix * Point: the row sums its four products, so a zero
\* entry times an infinite coordinate gives NaN
MatRowPoint(m, p, k) ==
    FAdd(FAdd(FAdd(FMul(MatAt(m, k, 1), p[1]), FMul(MatAt(m, k, 2), p[2])),
              FMul(MatAt(m, k, 3), p[3])),
         MatAt(m, k, 4))

\* &Matrix * Point
MatMulPoint(x, y) ==
    The({ <<MatRowPoint(m, p, 1), MatRowPoint(m, p, 2), MatRowPoint(m, p, 3)>>
          : m \in {x}, p \in {y} })

\* one row of &Matrix * Vector
MatRowVector(m, v, k) ==
    FAdd(FAdd(FMul(MatAt(m, k, 1), v[1]), FMul(MatAt(m, k, 2), v[2])),
         FMul(MatAt(m, k, 3), v[3]))

\* &Matrix * Vector
MatMulVector(x, y) ==
    The({ <<MatRowVector(m, v, 1), MatRowVector(m, v, 2), MatRowVector(m, v, 3)>>
          : m \in {x}, v \in {y} })

\* ------------------------------------------------------------------------
\* BoundingBox  (bounding_box.rs)
\* ------------------------------------------------------------------------
BoundingBoxDefault ==
    [min |-> <<INFINITY, INFINITY, INFINITY>>,
     max |-> <<NEG_INFINITY, NEG_INFINITY, NEG_INFINITY>>]

BoundingBoxNew(min, max) == [min |-> min, max |-> max]

\* one coordinate of add_point
Lower(old, new) == IF FLt(new, old) THEN new ELSE old
Raise(old, new) == IF FGt(new, old) THEN new ELSE old

\* add_point that only ever raises max
add_point_max_only(box, point) ==
    The({ [min |-> bb.min,
           max |-> <<Raise(bb.max[1], p[1]), Raise(bb.max[2], p[2]),
                     Raise(bb.max[3], p[3])>>] : bb \in {box}, p \in {point} })

add_point(box, point) ==
    The({ [min |-> <<Lower(bb.min[1], p[1]), Lower(bb.min[2], p[2]),
                     Lower(bb.min[3], p[3])>>,
           max |-> <<Raise(bb.max[1], p[1]), Raise(bb.max[2], p[2]),
                     Raise(bb.max[3], p[3])>>] : bb \in {box}, p \in {point} })

add_bounding_box(box, other) ==
    The({ add_point(add_point(box, o.min), o.max) : o \in {other} })

contains_point(box, point) ==
    \E bb \in {box}, p \in {point} :
        \A k \in Axes : FLe(bb.min[k], p[k]) /\ FLe(p[k], bb.max[k])

contains_bounding_box(box, other) ==
    \E bb \in {box}, o \in {other} :
        contains_point(bb, o.min) /\ contains_point(bb, o.max)

\* the eight corners, in the order p1..p8
Corners(box) ==
    The({ << bb.min,
             <<bb.min[1], bb.min[2], bb.max[3]>>,
             <<bb.min[1], bb.max[2], bb.min[3]>>,
             <<bb.min[1], bb.max[2], bb.max[3]>>,
             <<bb.max[1], bb.min[2], bb.min[3]>>,
             <<bb.max[1], bb.min[2], bb.max[3]>>,
             <<bb.max[1], bb.max[2], bb.min[3]>>,
             bb.max >> : bb \in {box} })

RECURSIVE AddPoints(_, _, _)
AddPoints(box, pts, k) ==
    The({ IF k > Len(points) THEN bb
          ELSE AddPoints(add_point(bb, points[k]), points, k + 1)
          : bb \in {box}, points \in {pts} })

\* BoundingBox::transform
BoundingBoxTransform(box, matrix) ==
    The({ AddPoints(BoundingBoxDefault,
                    << MatMulPoint(m, c[1]), MatMulPoint(m, c[2]),
                       MatMulPoint(m, c[3]), MatMulPoint(m, c[4]),
                       MatMulPoint(m, c[5]), MatMulPoint(m, c[6]),
                       MatMulPoint(m, c[7]), MatMulPoint(m, c[8]) >>, 1)
          : c \in {Corners(box)}, m \in {matrix} })

\* check_axis for a direction component in {-1, 0, 1}
check_axis(origin, direction, min, max) ==
    The({ IF FGt(tmin, tmax) THEN <<tmax, tmin>> ELSE <<tmin, tmax>>
          : tmin \in {IF direction # 0 THEN FDivUnit(FSub(min, origin), direction)
                      ELSE FMul(FSub(min, origin), INFINITY)},
            tmax \in {IF direction # 0 THEN FDivUnit(FSub(max, origin), direction)
                      ELSE FMul(FSub(max, origin), INFINITY)} })

\* BoundingBox::intersects
intersects(box, r) ==
    \E bb \in {box}, ray \in {r} :
        \E x \in {check_axis(ray.origin[1], ray.direction[1], bb.min[1], bb.max[1])},
           y \in {check_axis(ray.origin[2], ray.direction[2], bb.min[2], bb.max[2])},
           z \in {check_axis(ray.origin[3], ray.direction[3], bb.min[3], bb.max[3])} :
            FLe(FMax(FMax(x[1], y[1]), z[1]), FMin(FMin(x[2], y[2]), z[2]))

\* ------------------------------------------------------------------------
\* BoundingBox::add_bounding_box on pairs of boxes
\* ------------------------------------------------------------------------
Coords == (0 - MaxCoord)..MaxCoord

BoxPoints == {PointNew(x, y, 0) : x \in Coords, y \in {0 - 1, 1}}

\* the boxes a program builds: the default (empty) box and the boxes whose
\* min corner is below its max corner on every axis
Boxes ==
    {BoundingBoxDefault} \cup
    {BoundingBoxNew(c[1], c[2]) :
        c \in {d \in BoxPoints \X BoxPoints : \A k \in Axes : d[1][k] <= d[2][k]}}

BoxInit ==
    /\ bpc = "start"
    /\ boxA \in Boxes
    /\ boxB \in Boxes
    /\ boxU = <<>>

\* box1.add_bounding_box(&box2)
AddBoundingBox ==
    /\ bpc = "start"
    /\ bpc' = "done"
    /\ boxU' = add_bounding_box(boxA, boxB)
    /\ UNCHANGED <<boxA, boxB>>
    /\ UNCHANGED <<ivars, svars, rvars, ovars, gvars, pvars, hvars, kvars>>

BoxNext == AddBoundingBox

BoxSpecInit ==
    /\ BoxInit
    /\ IntersectIdle
    /\ ShadeIdle
    /\ RenderIdle
    /\ OptsIdle
    /\ GroupIdle
    /\ PrepareIdle
    /\ ShadowIdle
    /\ ConeIdle

BoxSpec == BoxSpecInit /\ [][BoxNext]_vars

\* C15: for all boxes A and B, after A.add_bounding_box(B) the resulting
\* box contains both the original A and B: contains_bounding_box is true
\* for each.
C15_UnionContainsBoth ==
    bpc = "done" =>
        /\ contains_bounding_box(boxU, boxA)
        /\ contains_bounding_box(boxU, boxB)

\* ------------------------------------------------------------------------
\* Shapes  (geometry/mod.rs, shape/cube.rs, shape/group.rs, shape/csg.rs)
\*
\* A shape is a record: kind ("Cube", "Cone", "Group" or "Csg"), id (primitives
\* only, 0 otherwise), the BaseShape fields transform, material and
\* bounding_box, and children (Group: its children; Csg: <<left, right>>).
\* handed is history: the transform the shape had when it was handed to
\* Group::add_child.
\* ------------------------------------------------------------------------
DefaultMaterial == "default"

UnitBox == BoundingBoxNew(PointNew(0 - 1, 0 - 1, 0 - 1), PointNew(1, 1, 1))

\* Cube::default
Cube(id) ==
    [kind |-> "Cube", id |-> id, transform |-> Identity, handed |-> Identity,
     material |-> DefaultMaterial, bounding_box |-> UnitBox, children |-> <<>>]

\* Cone::new(0, 0, false): limit is 0, so the bounding box is the single
\* point (0, 0, 0), a box of zero extent
ConeNew00(id) ==
    [kind |-> "Cone", id |-> id, transform |-> Identity, handed |-> Identity,
     material |-> DefaultMaterial,
     bounding_box |-> BoundingBoxNew(PointNew(0, 0, 0), PointNew(0, 0, 0)),
     children |-> <<>>]

\* the shapes that hold no other shape
IsPrimitive(shape) == shape.kind \in {"Cube", "Cone"}

\* Group::default
GroupDefault ==
    [kind |-> "Group", id |-> 0, transform |-> Identity, handed |-> Identity,
     material |-> DefaultMaterial, bounding_box |-> BoundingBoxDefault,
     children |-> <<>>]

\* Shape::get_bounds: the bounding box stored in the shape's base
get_bounds(shape) == shape.bounding_box

\* Shape::parent_space_bounds: the stored box under the shape's transform
parent_space_bounds(shape) ==
    The({ BoundingBoxTransform(get_bounds(s), s.transform) : s \in {shape} })

\* Csg::new
CsgNew(left, right) ==
    [kind |-> "Csg", id |-> 0, transform |-> Identity, handed |-> Identity,
     material |-> DefaultMaterial,
     bounding_box |-> add_bounding_box(
                          add_bounding_box(BoundingBoxDefault,
                                           parent_space_bounds(left)),
                          parent_space_bounds(right)),
     children |-> <<left, right>>]

\* the old group transform is left on the child
RemoveGroupTransformSkipped(inverse, child_transform) == child_transform

\* Group::set_transform, first loop: inverse * &child.get_base().transform
RemoveGroupTransform(inverse, child_transform) == MatMul(inverse, child_transform)

\* the group transform applied on the wrong side
ApplyGroupTransformOnRight(transform, child_transform) ==
    MatMul(child_transform, transform)

\* Group::set_transform, second loop, and Group::add_child:
\* transform * &child.get_base().transform
ApplyGroupTransform(transform, child_transform) == MatMul(transform, child_transform)

\* Shape::set_transform (Cube and Csg) and Group::set_transform.
\* SetTransformLoops walks the children once for both loops of
\* Group::set_transform (the first loop touches each child on its own):
\* it returns the children moved so far and the box built so far.
RECURSIVE set_transform(_, _)
RECURSIVE SetTransformLoops(_, _, _, _, _, _)
SetTransformLoops(children, inverse, transform, k, moved, new_bb) ==
    IF k > Len(children) THEN [children |-> moved, bounding_box |-> new_bb]
    ELSE The({ SetTransformLoops(children, inverse, transform, k + 1,
                                 Append(moved, child),
                                 add_bounding_box(new_bb, get_bounds(child)))
               : child \in
                   { The({ set_transform(reset,
                                         ApplyGroupTransform(transform, reset.transform))
                           : reset \in
                               { set_transform(children[k],
                                     RemoveGroupTransform(inverse,
                                                          children[k].transform)) } }) } })

set_transform(sh, tr) ==
    The({ IF shape.kind # "Group"
          THEN [shape EXCEPT !.transform = transform]
          ELSE The({ [shape EXCEPT !.transform = transform,
                                   !.children = loops.children,
                                   !.bounding_box = loops.bounding_box]
                     : loops \in { SetTransformLoops(shape.children,
                                                     MatInverse(shape.transform),
                                                     transform, 1, <<>>,
                                                     BoundingBoxDefault) } })
          : shape \in {sh}, transform \in {tr} })

\* Group::add_child without the bounding-box update
add_child_keeps_box(g, sh) ==
    The({ The({ [group EXCEPT !.children =
                                 Append(@, [placed EXCEPT !.handed = shape.transform])]
                : placed \in { set_transform(shape,
                                   ApplyGroupTransform(group.transform,
                                                       shape.transform)) } })
          : group \in {g}, shape \in {sh} })

\* Group::add_child
add_child(g, sh) ==
    The({ The({ [group EXCEPT !.bounding_box =
                                 add_bounding_box(@, parent_space_bounds(placed)),
                              !.children =
                                 Append(@, [placed EXCEPT !.handed = shape.transform])]
                : placed \in { set_transform(shape,
                                   ApplyGroupTransform(group.transform,
                                                       shape.transform)) } })
          : group \in {g}, shape \in {sh} })

\* Shape::set_material (Cube and Csg) and Group::set_material
RECURSIVE set_material(_, _)
RECURSIVE SetMaterialLoop(_, _, _, _)
SetMaterialLoop(children, material, k, done) ==
    IF k > Len(children) THEN done
    ELSE SetMaterialLoop(children, material, k + 1,
                         Append(done, set_material(children[k], material)))

set_material(sh, material) ==
    The({ IF shape.kind # "Group"
          THEN [shape EXCEPT !.material = material]
          ELSE [shape EXCEPT !.material = material,
                             !.children = SetMaterialLoop(shape.children, material,
                                                          1, <<>>)]
          : shape \in {sh} })

\* BoundingBox::split: the two halves of the box, cut at the midpoint of
\* its longest axis (x before y before z when widths tie)
split(box) ==
    The({ The({ The({ << BoundingBoxNew(bb.min,
                                        [k \in Axes |-> IF k = axis THEN mid
                                                        ELSE bb.max[k]] \o <<>>),
                         BoundingBoxNew([k \in Axes |-> IF k = axis THEN mid
                                                        ELSE bb.min[k]] \o <<>>,
                                        bb.max) >>
                      : mid \in { FAdd(bb.min[axis], FHalf(d[axis])) } })
                : axis \in { IF FMax(FMax(d[1], d[2]), d[3]) = d[1] THEN 1
                             ELSE IF FMax(FMax(d[1], d[2]), d[3]) = d[2] THEN 2
                             ELSE 3 } })
          : bb \in {box},
            d \in { << FSub(box.max[1], box.min[1]),
                       FSub(box.max[2], box.min[2]),
                       FSub(box.max[3], box.min[3]) >> } })

\* one pass of partition_children: the children whose parent-space bounds
\* fit in half move to taken, the others stay, both in their order
RECURSIVE PartitionPass(_, _, _, _, _)
PartitionPass(children, half, i, kept, taken) ==
    IF i > Len(children) THEN [kept |-> kept, taken |-> taken]
    ELSE IF contains_bounding_box(half, parent_space_bounds(children[i]))
         THEN PartitionPass(children, half, i + 1, kept, Append(taken, children[i]))
         ELSE PartitionPass(children, half, i + 1, Append(kept, children[i]), taken)

\* a partition whose second pass looks at every child again
partition_children_overlapping(g) ==
    The({ The({ [group |-> [group EXCEPT !.children = first.kept],
                 left |-> first.taken,
                 right |-> second.taken]
                : first \in { PartitionPass(group.children, halves[1], 1, <<>>, <<>>) },
                  second \in { PartitionPass(group.children, halves[2], 1, <<>>, <<>>) } })
          : group \in {g}, halves \in { split(get_bounds(g)) } })

\* Group::partition_children
partition_children(g) ==
    The({ The({ The({ [group |-> [group EXCEPT !.children = second.kept],
                       left |-> first.taken,
                       right |-> second.taken]
                      : second \in { PartitionPass(first.kept, halves[2], 1,
                                                   <<>>, <<>>) } })
                : first \in { PartitionPass(group.children, halves[1], 1, <<>>, <<>>) } })
          : group \in {g}, halves \in { split(get_bounds(g)) } })

RECURSIVE AddChildren(_, _, _)
AddChildren(g, shapes, k) ==
    IF k > Len(shapes) THEN g
    ELSE The({ AddChildren(group, shapes, k + 1)
               : group \in { add_child(g, shapes[k]) } })

\* Group::make_subgroup
make_subgroup(group, shapes) ==
    add_child(group, AddChildren(GroupDefault, shapes, 1))

\* the threshold test of Group::divide, off by one
DivideThresholdStrict(threshold, len) == threshold < len

\* the threshold test of Group::divide
DivideThreshold(threshold, len) == threshold <= len

\* the partition step of Group::divide
DivideLevel(g, threshold) ==
    IF ~DivideThreshold(threshold, Len(g.children)) THEN g
    ELSE The({ The({ IF parts.right # <<>>
                     THEN make_subgroup(withLeft, parts.right)
                     ELSE withLeft
                     : withLeft \in { IF parts.left # <<>>
                                      THEN make_subgroup(parts.group, parts.left)
                                      ELSE parts.group } })
               : parts \in { partition_children(g) } })

\* Group::divide, Csg::divide and the default Shape::divide (a primitive
\* has nothing to divide).  The recursion of the code has no depth limit;
\* a call nested deeper than MaxDivideDepth stands for the recursion that
\* never returns (the thread overflows its stack), and leaves a shape of
\* kind "overflow" in its place.
RECURSIVE DivideAt(_, _, _)
RECURSIVE DivideLoop(_, _, _, _, _)
DivideLoop(children, threshold, k, done, depth) ==
    IF k > Len(children) THEN done
    ELSE DivideLoop(children, threshold, k + 1,
                    Append(done, DivideAt(children[k], threshold, depth)), depth)

DivideAt(sh, threshold, depth) ==
    The({ IF depth > MaxDivideDepth THEN [shape EXCEPT !.kind = "overflow"]
          ELSE IF IsPrimitive(shape) THEN shape
          ELSE IF shape.kind = "Csg"
          THEN [shape EXCEPT !.children =
                                DivideLoop(shape.children, threshold, 1, <<>>, depth + 1)]
          ELSE The({ [level EXCEPT !.children =
                                      DivideLoop(level.children, threshold, 1, <<>>,
                                                 depth + 1)]
                     : level \in { DivideLevel(shape, threshold) } })
          : shape \in {sh} })

divide(shape, threshold) == DivideAt(shape, threshold, 0)

\* the recursion below shape did not return
RECURSIVE Overflowed(_)
Overflowed(shape) ==
    \/ shape.kind = "overflow"
    \/ \E k \in 1..Len(shape.children) : Overflowed(shape.children[k])

\* ------------------------------------------------------------------------
\* Rays and the calls made by intersect
\* ------------------------------------------------------------------------
\* Ray::transform
RayTransform(r, matrix) ==
    The({ [origin |-> MatMulPoint(m, ray.origin),
           direction |-> MatMulVector(m, ray.direction)]
          : ray \in {r}, m \in {matrix} })

\* a Group::intersect that hands the ray to every child unconditionally
GroupRejectsNever(group, ray) == FALSE

\* Group::intersect: the bounding-box test
GroupRejects(group, ray) == ~intersects(get_bounds(group), ray)

\* Csg::local_intersect: the bounding-box test
CsgRejects(csg, local_ray) == ~intersects(get_bounds(csg), local_ray)

\* The intersect calls made below shape when shape.intersect(ray) runs:
\* a set of [path, ray], path being the child indices from shape down.
\* Group::intersect hands its ray on unchanged; Shape::intersect (Cube,
\* Csg) moves the ray to local space first, and Csg::local_intersect hands
\* the local ray to left and right.
RECURSIVE IntersectCalls(_, _, _)
IntersectCalls(sh, r, pth) ==
    The({ IF IsPrimitive(shape) THEN {}
          ELSE The({ IF (IF shape.kind = "Group" THEN GroupRejects(shape, local_ray)
                         ELSE CsgRejects(shape, local_ray))
                     THEN {}
                     ELSE UNION { {[path |-> Append(path, k), ray |-> local_ray]} \cup
                                  IntersectCalls(shape.children[k], local_ray,
                                                 Append(path, k))
                                  : k \in 1..Len(shape.children) }
                     : local_ray \in { IF shape.kind = "Group" THEN ray
                                       ELSE RayTransform(ray,
                                                MatInverse(shape.transform)) } })
          : shape \in {sh}, ray \in {r}, path \in {pth} })

\* ------------------------------------------------------------------------
\* Building and using a Group hierarchy
\* ------------------------------------------------------------------------
\* the identity, a shift to the right, and a shift followed by a mirror
\* image (x |-> -(x + 2)): the last two do not commute
Transforms ==
    {Identity, translation(2, 0, 0),
     MatMul(scaling(0 - 1, 1, 1), translation(2, 0, 0))}

MaterialNames == {"m1"}

GroupRays ==
    {[origin |-> PointNew(x, 0, 0 - 5), direction |-> <<0, 0, 1>>] : x \in {0 - 2, 2}}
    \cup {[origin |-> PointNew(0, 0, 0 - 5), direction |-> <<0, 1, 0>>]}

Thresholds == 1..2

NoOp == [op |-> "new", arg |-> <<>>]

\* Group::default, given its transform while it has no children
GroupInit ==
    /\ gpc = "build"
    /\ grp \in {set_transform(GroupDefault, t) : t \in Transforms}
    /\ gprev = grp
    /\ glast = NoOp
    /\ ghist = [root |-> {}, tree |-> {}]
    /\ gtrace = {}
    /\ gcount = 0
    /\ gops = 0

Did(op) == [root |-> ghist.root \cup {op}, tree |-> ghist.tree \cup {op}]

\* g.add_child(Box::new(cube)) for a cube given a transform
AddCube ==
    /\ gpc = "build"
    /\ gops < MaxOps
    /\ gcount < MaxPrims
    /\ \E t \in Transforms :
          \E shape \in {set_transform(Cube(gcount + 1), t)} :
              /\ grp' = add_child(grp, shape)
              /\ glast' = [op |-> "add_child", arg |-> shape]
    /\ gprev' = grp
    /\ ghist' = Did("add_child")
    /\ gcount' = gcount + 1
    /\ gops' = gops + 1
    /\ UNCHANGED <<gpc, gtrace>>
    /\ UNCHANGED <<ivars, svars, rvars, ovars, bvars, pvars, hvars, kvars>>

\* g.add_child(Box::new(Cone::new(0, 0, false))) for a cone given a transform
AddCone ==
    /\ gpc = "build"
    /\ gops < MaxOps
    /\ gcount < MaxPrims
    /\ \E t \in Transforms :
          \E shape \in {set_transform(ConeNew00(gcount + 1), t)} :
              /\ grp' = add_child(grp, shape)
              /\ glast' = [op |-> "add_child", arg |-> shape]
    /\ gprev' = grp
    /\ ghist' = Did("add_child")
    /\ gcount' = gcount + 1
    /\ gops' = gops + 1
    /\ UNCHANGED <<gpc, gtrace>>
    /\ UNCHANGED <<ivars, svars, rvars, ovars, bvars, pvars, hvars, kvars>>

\* g.add_child(Box::new(Csg::new(op, left, right))) for two cubes, the csg
\* given a transform
AddCsg ==
    /\ gpc = "build"
    /\ gops < MaxOps
    /\ gcount + 2 <= MaxPrims
    /\ \E t \in Transforms :
          \E left \in {set_transform(Cube(gcount + 1), t)},
             right \in {set_transform(Cube(gcount + 2), MatInverse(t))} :
              \E shape \in {set_transform(CsgNew(left, right), t)} :
                  /\ grp' = add_child(grp, shape)
                  /\ glast' = [op |-> "add_csg", arg |-> shape]
    /\ gprev' = grp
    /\ ghist' = Did("add_child")
    /\ gcount' = gcount + 2
    /\ gops' = gops + 1
    /\ UNCHANGED <<gpc, gtrace>>
    /\ UNCHANGED <<ivars, svars, rvars, ovars, bvars, pvars, hvars, kvars>>

\* g.add_child(Box::new(Csg::new(op, cube, Group::default()))): the right
\* child is a group that holds nothing, the csg is given a transform
AddCsgOfGroup ==
    /\ gpc = "build"
    /\ gops < MaxOps
    /\ gcount < MaxPrims
    /\ \E t \in Transforms :
          \E left \in {set_transform(Cube(gcount + 1), t)} :
              \E shape \in {set_transform(CsgNew(left, GroupDefault), t)} :
                  /\ grp' = add_child(grp, shape)
                  /\ glast' = [op |-> "add_csg", arg |-> shape]
    /\ gprev' = grp
    /\ ghist' = Did("add_child")
    /\ gcount' = gcount + 1
    /\ gops' = gops + 1
    /\ UNCHANGED <<gpc, gtrace>>
    /\ UNCHANGED <<ivars, svars, rvars, ovars, bvars, pvars, hvars, kvars>>

\* outer.add_child(Box::new(g)) for a new group outer, which becomes the root
Nest ==
    /\ gpc = "build"
    /\ gops < MaxOps
    /\ \E t \in Transforms :
          \E outer \in {set_transform(GroupDefault, t)} :
              /\ grp' = add_child(outer, grp)
              /\ glast' = [op |-> "nest", arg |-> t]
    /\ gprev' = grp
    /\ ghist' = [root |-> {"add_child"}, tree |-> ghist.tree \cup {"add_child"}]
    /\ gops' = gops + 1
    /\ UNCHANGED <<gpc, gtrace, gcount>>
    /\ UNCHANGED <<ivars, svars, rvars, ovars, bvars, pvars, hvars, kvars>>

\* g.set_transform(t) on a group that has children
SetTransform ==
    /\ gpc = "build"
    /\ gops < MaxOps
    /\ grp.children # <<>>
    /\ \E t \in Transforms :
          /\ grp' = set_transform(grp, t)
          /\ glast' = [op |-> "set_transform", arg |-> t]
    /\ gprev' = grp
    /\ ghist' = Did("set_transform")
    /\ gops' = gops + 1
    /\ UNCHANGED <<gpc, gtrace, gcount>>
    /\ UNCHANGED <<ivars, svars, rvars, ovars, bvars, pvars, hvars, kvars>>

\* g.set_material(m)
SetMaterial ==
    /\ gpc = "build"
    /\ gops < MaxOps
    /\ \E m \in MaterialNames :
          /\ grp' = set_material(grp, m)
          /\ glast' = [op |-> "set_material", arg |-> m]
    /\ gprev' = grp
    /\ ghist' = Did("set_material")
    /\ gops' = gops + 1
    /\ UNCHANGED <<gpc, gtrace, gcount>>
    /\ UNCHANGED <<ivars, svars, rvars, ovars, bvars, pvars, hvars, kvars>>

\* g.divide(threshold)
Divide ==
    /\ gpc = "build"
    /\ gops < MaxOps
    /\ \E threshold \in Thresholds :
          \E divided \in {divide(grp, threshold)} :
              /\ glast' = [op |-> "divide", arg |-> threshold]
              /\ IF Overflowed(divided)
                 THEN /\ gpc' = "overflow"
                      /\ UNCHANGED grp
                 ELSE /\ grp' = divided
                      /\ UNCHANGED gpc
    /\ gprev' = grp
    /\ ghist' = Did("divide")
    /\ gops' = gops + 1
    /\ UNCHANGED <<gtrace, gcount>>
    /\ UNCHANGED <<ivars, svars, rvars, ovars, bvars, pvars, hvars, kvars>>

\* g.intersect(&ray)
Intersect ==
    /\ gpc = "build"
    /\ \E ray \in GroupRays :
          /\ gtrace' = IntersectCalls(grp, ray, <<>>)
          /\ glast' = [op |-> "intersect", arg |-> ray]
    /\ gpc' = "done"
    /\ gprev' = grp
    /\ UNCHANGED <<grp, ghist, gcount, gops>>
    /\ UNCHANGED <<ivars, svars, rvars, ovars, bvars, pvars, hvars, kvars>>

GroupNext ==
    \/ AddCube
    \/ AddCone
    \/ AddCsg
    \/ AddCsgOfGroup
    \/ Nest
    \/ SetTransform
    \/ SetMaterial
    \/ Divide
    \/ Intersect

GroupSpecInit ==
    /\ GroupInit
    /\ IntersectIdle
    /\ ShadeIdle
    /\ RenderIdle
    /\ OptsIdle
    /\ BoxIdle
    /\ PrepareIdle
    /\ ShadowIdle
    /\ ConeIdle

GroupSpec == GroupSpecInit /\ [][GroupNext]_vars

\* ------------------------------------------------------------------------
\* Properties of the Group hierarchy
\* ------------------------------------------------------------------------
\* every shape below shape, shape included
RECURSIVE Subtree(_)
Subtree(shape) ==
    {shape} \cup UNION {Subtree(shape.children[k]) : k \in 1..Len(shape.children)}

\* the ids of the primitives in the subtree of shape
Ids(shape) == {s.id : s \in {c \in Subtree(shape) : IsPrimitive(c)}}

\* id and stored transform of every primitive in the subtree of shape
LeafTransforms(shape) ==
    {<<s.id, s.transform>> : s \in {c \in Subtree(shape) : IsPrimitive(c)}}

IsPrefix(p, q) == Len(p) < Len(q) /\ SubSeq(q, 1, Len(p)) = p

\* the calls recorded below the node at path are those its box allows
RECURSIVE CallsFollowBoxes(_, _, _)
CallsFollowBoxes(shape, ray, path) ==
    \/ IsPrimitive(shape)
    \/ \E handed_on \in {IF shape.kind = "Group" THEN ray
                         ELSE RayTransform(ray, MatInverse(shape.transform))} :
          IF ~intersects(shape.bounding_box, handed_on)
          THEN \A c \in gtrace : ~IsPrefix(path, c.path)
          ELSE \A k \in 1..Len(shape.children) :
                  /\ [path |-> Append(path, k), ray |-> handed_on] \in gtrace
                  /\ CallsFollowBoxes(shape.children[k], handed_on, Append(path, k))

\* C12: when a ray misses a Group's bounding box, Group::intersect calls
\* intersect on none of its children, and Csg::local_intersect calls neither
\* left.intersect nor right.intersect when the ray misses the Csg's box;
\* when the box is hit, every child is tested with the ray.
C12_BoxMissTestsNoChild ==
    glast.op = "intersect" => CallsFollowBoxes(grp, glast.arg, <<>>)

\* a group with children whose box is hit while the box of one of its
\* Csg children is missed by the ray taken into the Csg's space
C12_Witness ==
    /\ glast.op = "intersect"
    /\ grp.children # <<>>
    /\ intersects(grp.bounding_box, glast.arg)
    /\ gtrace # {}
    /\ \E k \in 1..Len(grp.children) :
          /\ grp.children[k].kind = "Csg"
          /\ ~intersects(grp.children[k].bounding_box,
                         RayTransform(glast.arg, MatInverse(grp.children[k].transform)))

\* C13: after Group::set_transform on a group that already has children,
\* the group's bounding box contains the parent-space bounds of every child.
C13_BoxFollowsSetTransform ==
    glast.op = "set_transform" =>
        \A k \in 1..Len(grp.children) :
            contains_bounding_box(grp.bounding_box,
                                  parent_space_bounds(grp.children[k]))

\* the union of two boxes, corner by corner
UnionOf(a, b) ==
    [min |-> <<FMin(a.min[1], b.min[1]), FMin(a.min[2], b.min[2]),
               FMin(a.min[3], b.min[3])>>,
     max |-> <<FMax(a.max[1], b.max[1]), FMax(a.max[2], b.max[2]),
               FMax(a.max[3], b.max[3])>>]

\* C14: after any sequence of Group::add_child calls the group's bounding
\* box contains the parent-space bounds of every child added, and the
\* bounding box of a Csg built by Csg::new is the union of the parent-space
\* bounds of its left and right children.
C14_BoxCoversChildren ==
    /\ ghist.root \subseteq {"add_child"} =>
          \A k \in 1..Len(grp.children) :
              contains_bounding_box(grp.bounding_box,
                                    parent_space_bounds(grp.children[k]))
    /\ glast.op = "add_csg" =>
          glast.arg.bounding_box =
              UnionOf(parent_space_bounds(glast.arg.children[1]),
                      parent_space_bounds(glast.arg.children[2]))

\* C17: after g.divide(threshold), for a group g with any transform, every
\* primitive that was a descendant of g has the same stored transform as
\* before the call.
C17_DivideKeepsLeafTransforms ==
    (glast.op = "divide" /\ gpc # "overflow") =>
        LeafTransforms(grp) = LeafTransforms(gprev)

\* C18: after set_material(m) on a Group or on a Csg, every shape in its
\* subtree (shapes inside child Groups and child Csgs included) has
\* material m.
C18_MaterialReachesSubtree ==
    glast.op = "set_material" =>
        \A s \in Subtree(grp) : s.material = glast.arg

\* every child's stored transform is the group's transform composed with
\* the transform the child was handed over with, groups in groups included
RECURSIVE TransformsComposed(_)
TransformsComposed(group) ==
    \A k \in 1..Len(group.children) :
        \E child \in {group.children[k]} :
            /\ child.transform = MatMul(group.transform, child.handed)
            /\ child.kind = "Group" => TransformsComposed(child)

\* C19: after any sequence of add_child and set_transform calls on a group
\* (groups nested in groups included), every child's stored transform
\* equals the group's current transform composed with the transform the
\* child had when it was handed to add_child.
C19_ChildTransformsComposed ==
    ghist.tree \subseteq {"add_child", "set_transform"} => TransformsComposed(grp)

\* set_transform replaced a transform other than the identity on a group
\* that holds a group with a child
C19_Witness ==
    /\ glast.op = "set_transform"
    /\ ghist.tree = {"add_child", "set_transform"}
    /\ glast.arg # Identity
    /\ gprev.transform \notin {Identity, glast.arg}
    /\ \E k \in 1..Len(grp.children) :
          /\ grp.children[k].kind = "Group"
          /\ \E j \in 1..Len(grp.children[k].children) :
                grp.children[k].children[j].handed # Identity

\* the members of a set of indices, in ascending order
RECURSIVE Ascending(_)
Ascending(S) ==
    IF S = {} THEN <<>>
    ELSE The({ <<least>> \o Ascending(S \ {least})
               : least \in {The({k \in S : \A j \in S : k <= j})} })

IdsOf(children, S) == UNION {Ids(children[k]) : k \in S}

\* after is a new Group that holds the children of before numbered in
\* moved; when it stays below the threshold they are its children, in order
IsSubgroupOf(after, children, moved, threshold) ==
    /\ after.kind = "Group"
    /\ Ids(after) = IdsOf(children, moved)
    /\ threshold > Cardinality(moved) =>
          /\ Len(after.children) = Cardinality(moved)
          /\ \A i \in 1..Cardinality(moved) :
                Ids(after.children[i]) = Ids(children[Ascending(moved)[i]])

\* after is what divide(threshold) makes of before, as C16 words it
RECURSIVE DividedAs(_, _, _)
DividedAs(before, after, threshold) ==
    IF IsPrimitive(before) THEN after = before
    ELSE IF before.kind = "Csg" \/ threshold > Len(before.children)
    THEN /\ after.kind = before.kind
         /\ Len(after.children) = Len(before.children)
         /\ \A k \in 1..Len(before.children) :
               DividedAs(before.children[k], after.children[k], threshold)
    ELSE \E halves \in {split(before.bounding_box)} :
         \E left \in {{k \in 1..Len(before.children) :
                          contains_bounding_box(halves[1],
                              parent_space_bounds(before.children[k]))}} :
         \E right \in {{k \in (1..Len(before.children)) \ left :
                          contains_bounding_box(halves[2],
                              parent_space_bounds(before.children[k]))}} :
         \E stay \in {Ascending((1..Len(before.children)) \ (left \cup right))} :
            /\ after.kind = "Group"
            /\ Len(after.children) = Len(stay) + (IF left = {} THEN 0 ELSE 1)
                                               + (IF right = {} THEN 0 ELSE 1)
            /\ \A i \in 1..Len(stay) :
                  DividedAs(before.children[stay[i]], after.children[i], threshold)
            /\ left # {} =>
                  IsSubgroupOf(after.children[Len(stay) + 1], before.children,
                               left, threshold)
            /\ right # {} =>
                  IsSubgroupOf(after.children[Len(after.children)], before.children,
                               right, threshold)

\* C16: Group::divide(threshold) on a group with at least threshold children
\* moves each child whose parent-space bounds fit entirely in the left half
\* of the group's bounding box into one new child Group, each remaining
\* child that fits entirely in the right half into another, leaves all other
\* children at this level, creates a subgroup only for a non-empty
\* partition, and then divides every child (a Csg forwards to both of its
\* children); with fewer than threshold children it only recurses.
C16_DividePartitionsChildren ==
    (glast.op = "divide" /\ gpc # "overflow") =>
        DividedAs(gprev, grp, glast.arg)

\* a divide that left one child at this level and moved the other into a
\* new subgroup
C16_Witness ==
    /\ glast.op = "divide"
    /\ gpc # "overflow"
    /\ Len(gprev.children) = 2
    /\ Len(grp.children) = 2
    /\ grp.children[1] \in {gprev.children[1], gprev.children[2]}
    /\ grp.children[2].kind = "Group"
    /\ grp.children[2] \notin {gprev.children[1], gprev.children[2]}

\* ------------------------------------------------------------------------
\* Intersection::prepare_computations: n1 and n2  (geometry/intersection.rs)
\* Refractive indices are kept in tenths (1.5 is 15); a shape is its
\* place in pshapes, its BaseShape the record stored there.
\* ------------------------------------------------------------------------
\* Sphere::glass with the transform and refractive index of the test scene
GlassSphere(transform, refractive_index) ==
    [transform |-> transform, refractive_index |-> refractive_index]

\* the scenes: three nested spheres A, B, C, and two shapes with equal
\* transform and material next to a third
PrepareScenes ==
    { << GlassSphere("scaling(2,2,2)", 15),
         GlassSphere("translation(0,0,-0.25)", 20),
         GlassSphere("translation(0,0,0.25)", 25) >>,
      << GlassSphere("identity", 15),
         GlassSphere("identity", 15),
         GlassSphere("translation(0,0,0.25)", 25) >> }

\* PartialEq of dyn Shape: the BaseShapes are equal
ShapeEq(a, b) == pshapes[a] = pshapes[b]

\* derived PartialEq of Intersection (u and v are None)
IntersectionEq(i, j) == i.t = j.t /\ ShapeEq(i.object, j.object)

\* containers.iter().position(|&el| el == object)
RECURSIVE Position(_, _, _)
Position(containers, object, k) ==
    IF k > Len(containers) THEN 0
    ELSE IF ShapeEq(containers[k], object) THEN k
    ELSE Position(containers, object, k + 1)

\* containers.remove(idx)
Remove(containers, idx) ==
    SubSeq(containers, 1, idx - 1) \o SubSeq(containers, idx + 1, Len(containers))

\* removal that takes the last container whichever shape was found
ToggleContainerPopsLast(containers, object) ==
    IF Position(containers, object, 1) # 0
    THEN SubSeq(containers, 1, Len(containers) - 1)
    ELSE Append(containers, object)

\* the contains / remove / push step of the loop
ToggleContainer(containers, object) ==
    The({ IF idx # 0 THEN Remove(containers, idx) ELSE Append(containers, object)
          : idx \in {Position(containers, object, 1)} })

\* the refractive index read off the container list
TopIndex(containers) ==
    IF containers = <<>> THEN 10
    ELSE pshapes[containers[Len(containers)]].refractive_index

\* the loop over the intersections, from the k-th on: n1 and n2, the
\* place in the list where the loop broke off (0 when it ran to the end)
\* and the container list it held then
RECURSIVE PrepareLoop(_, _, _, _, _)
PrepareLoop(list, self, k, containers, n1) ==
    IF k > Len(list)
    THEN [n1 |-> n1, n2 |-> 0 - 10, stop |-> 0, containers |-> containers]
    ELSE The({ IF IntersectionEq(list[k], self)
               THEN [n1 |-> TopIndex(containers), n2 |-> TopIndex(next),
                     stop |-> k, containers |-> next]
               ELSE PrepareLoop(list, self, k + 1, next, n1)
               : next \in {ToggleContainer(containers, list[k].object)} })

\* Intersection::prepare_computations, the n1 and n2 of its result
prepare_computations(self, list) ==
    The({ [n1 |-> loop.n1, n2 |-> loop.n2]
          : loop \in {PrepareLoop(list, self, 1, <<>>, 0 - 10)} })

PrepareInit ==
    /\ ppc = "build"
    /\ pshapes \in PrepareScenes
    /\ pxs = <<>>
    /\ phit = 0
    /\ comps = <<>>

\* one more intersection at the end of the sorted list
PushIntersection ==
    /\ ppc = "build"
    /\ Len(pxs) < MaxXs
    /\ \E object \in 1..Len(pshapes) :
       \E t \in (IF pxs = <<>> THEN {1} ELSE {pxs[Len(pxs)].t, pxs[Len(pxs)].t + 1}) :
          pxs' = Append(pxs, [t |-> t, object |-> object])
    /\ UNCHANGED <<ppc, pshapes, phit, comps>>
    /\ UNCHANGED <<ivars, svars, rvars, ovars, bvars, gvars, hvars, kvars>>

\* xs[hit].prepare_computations(&r, &xs)
PrepareComputations ==
    /\ ppc = "build"
    /\ \E at \in 1..Len(pxs) :
          /\ phit' = at
          /\ comps' = prepare_computations(pxs[at], pxs)
    /\ ppc' = "done"
    /\ UNCHANGED <<pshapes, pxs>>
    /\ UNCHANGED <<ivars, svars, rvars, ovars, bvars, gvars, hvars, kvars>>

PrepareNext ==
    \/ PushIntersection
    \/ PrepareComputations

PrepareSpecInit ==
    /\ PrepareInit
    /\ IntersectIdle
    /\ ShadeIdle
    /\ RenderIdle
    /\ OptsIdle
    /\ BoxIdle
    /\ GroupIdle
    /\ ShadowIdle
    /\ ConeIdle

PrepareSpec == PrepareSpecInit /\ [][PrepareNext]_vars

\* the container list after the first k intersections when a shape is
\* found in the list only if that very shape is there
RECURSIVE ContainersAfter(_, _)
ContainersAfter(list, k) ==
    IF k = 0 THEN <<>>
    ELSE The({ IF \E j \in 1..Len(before) : before[j] = list[k].object
               THEN SelectSeq(before, LAMBDA s : s # list[k].object)
               ELSE Append(before, list[k].object)
               : before \in {ContainersAfter(list, k - 1)} })

\* where the hit stands in the list: the first intersection with its t on
\* its very shape (an intersection is a value, two of them with the same t
\* and the same shape are one and the same hit)
HitPlace == The({k \in 1..Len(pxs) : /\ pxs[k] = pxs[phit]
                                     /\ \A j \in 1..(k - 1) : pxs[j] # pxs[phit]})

\* the nested glass spheres A, B, C hit in the order A, B, C, B, C, A
IsFixture ==
    /\ pshapes[1].refractive_index = 15
    /\ pshapes[2].refractive_index = 20
    /\ pshapes[3].refractive_index = 25
    /\ Len(pxs) = 6
    /\ \A k \in 1..6 : pxs[k].object = <<1, 2, 3, 2, 3, 1>>[k] /\ pxs[k].t = k

\* C20: prepare_computations(hit, xs) replays xs in order with a container
\* list that starts empty: an intersection whose shape is already in the
\* list removes that shape, otherwise the shape is appended; n1 is the
\* refractive index of the last container just before the hit is processed
\* and n2 that of the last container just after (1.0 when the list is
\* empty).  For the nested glass spheres A(1.5), B(2.0), C(2.5) hit in the
\* order A,B,C,B,C,A this yields (1.0,1.5), (1.5,2.0), (2.0,2.5), (2.5,2.5),
\* (2.5,1.5), (1.5,1.0).
C20_ContainersGiveN1N2 ==
    ppc = "done" =>
        /\ comps.n1 = TopIndex(ContainersAfter(pxs, HitPlace - 1))
        /\ comps.n2 = TopIndex(ContainersAfter(pxs, HitPlace))
        /\ IsFixture =>
              comps = [n1 |-> <<10, 15, 20, 25, 25, 15>>[phit],
                       n2 |-> <<15, 20, 25, 25, 15, 10>>[phit]]

\* ------------------------------------------------------------------------
\* Properties of intersections() as a sort
\* ------------------------------------------------------------------------
\* how often e occurs in list
Occurrences(list, e) == Cardinality({k \in 1..Len(list) : list[k] = e})

\* C21: intersections(xs) returns a list holding exactly the same
\* intersections as xs (same multiset, same length) ordered by
\* non-decreasing t; World::intersect returns the hits of all objects,
\* collected in xs, in that order.
C21_SortedSameIntersections ==
    ipc # "start" =>
        /\ Len(sorted) = Len(xs)
        /\ \A e \in Intersection : Occurrences(sorted, e) = Occurrences(xs, e)
        /\ \A i \in 1..Len(sorted) : \A j \in i..Len(sorted) :
              sorted[i].t <= sorted[j].t

\* a list that came in out of order and holds one intersection twice
C21_Witness ==
    /\ ipc = "sorted"
    /\ Len(xs) >= 3
    /\ xs[1].t > xs[Len(xs)].t
    /\ \E i, j \in 1..Len(xs) : i # j /\ xs[i] = xs[j]
    /\ sorted # xs

\* C22: intersections(xs) is a stable sort: any two intersections of xs
\* with equal t appear in the output in the same relative order as in xs.
C22_SortIsStable ==
    ipc # "start" =>
        \A v \in Ts :
            SelectSeq(sorted, LAMBDA e : e.t = v) = SelectSeq(xs, LAMBDA e : e.t = v)

\* ------------------------------------------------------------------------
\* Properties of shade_hit's result
\* ------------------------------------------------------------------------
\* what C24 says the shade_hit of frame f returns
BlendOf(f) ==
    The({ IF o.material.reflective > 0 /\ o.material.transparency > 0
          THEN Surface + (f.reflected * schlick(o)) \div ONE
                       + (f.refracted * (ONE - schlick(o))) \div ONE
          ELSE Surface + f.reflected + f.refracted
          : o \in {world[f.ray]} })

\* C24: shade_hit returns surface + reflected*R + refracted*(1 - R), with R
\* the Schlick reflectance of the hit, when the hit material has both
\* reflective > 0 and transparency > 0, and surface + reflected + refracted
\* otherwise; the value goes to the caller of color_at (the result of the
\* render, or the reflected_color / refracted_color that asked for it, which
\* scales it by its coefficient).
C24_ShadeHitBlend ==
    [][ (spc = "running" /\ Top.stage = "combine") =>
           \E color \in {BlendOf(Top)} :
              IF Len(stack) = 1
              THEN spc' = "done" /\ shadeResult' = color
              ELSE \E p \in {stack[Len(stack) - 1]} :
                   \E q \in {stack'[Len(stack')]} :
                      IF p.stage = "reflect_wait"
                      THEN q.reflected =
                              (color * world[p.ray].material.reflective) \div ONE
                      ELSE q.refracted =
                              (color * world[p.ray].material.transparency) \div ONE
      ]_vars

\* a glass surface whose reflected and refracted rays both brought back
\* light has been shaded, without total internal reflection
C24_Witness ==
    /\ spc = "done"
    /\ world[1].hit
    /\ world[1].material.reflective > 0
    /\ world[1].material.transparency > 0
    /\ ~world[1].tir
    /\ world[world[1].reflect_to].hit
    /\ world[world[1].refract_to].hit
    /\ depth0 > 0
    /\ shadeResult = 2 * Surface

\* ------------------------------------------------------------------------
\* World::is_shadowed and shadow_hit   (world.rs, geometry/intersection.rs)
\* ------------------------------------------------------------------------
ShadowShapes == {"s1", "s2"}

ShadowIntersection == [t : Ts, object : ShadowShapes]

\* Shape::has_shadow: the object has not been marked with no_shadow
has_shadow(object) == object \notin hshadowless

\* a shadow_hit that takes the first intersection with t >= 0 whatever
\* object it is on
shadow_hit_any_object(list) ==
    The({ IF idx = {} THEN <<>> ELSE <<list[SetMin(idx)]>>
          : idx \in {{i \in 1..Len(list) : list[i].t >= 0}} })

\* xs.iter().find(|&&i| i.t() >= 0.0 && i.object().has_shadow())
shadow_hit(list) ==
    The({ IF idx = {} THEN <<>> ELSE <<list[SetMin(idx)]>>
          : idx \in {{i \in 1..Len(list) :
                         list[i].t >= 0 /\ has_shadow(list[i].object)}} })

\* the last line of is_shadowed: h.is_some() && h.unwrap().t() < distance
is_shadowed(list, light_distance) ==
    \E h \in {shadow_hit(list)} : h # <<>> /\ h[1].t < light_distance

ShadowInit ==
    /\ hpc = "start"
    /\ hshadowless \in SUBSET ShadowShapes
    /\ hdistance \in 0..(MaxT + 1)
    /\ hxs \in SeqsUpTo(ShadowIntersection, MaxLen)
    /\ hsorted = <<>>
    /\ hshadowed = FALSE

\* world.is_shadowed(point, light): self.intersect(&r) sorts what the
\* objects return, shadow_hit picks from the sorted list
IsShadowed ==
    /\ hpc = "start"
    /\ \E list \in intersections(hxs) :
          /\ hsorted' = list
          /\ hshadowed' = is_shadowed(list, hdistance)
    /\ hpc' = "done"
    /\ UNCHANGED <<hshadowless, hdistance, hxs>>
    /\ UNCHANGED <<ivars, svars, rvars, ovars, bvars, gvars, pvars, kvars>>

ShadowNext == IsShadowed

ShadowSpecInit ==
    /\ ShadowInit
    /\ IntersectIdle
    /\ ShadeIdle
    /\ RenderIdle
    /\ OptsIdle
    /\ BoxIdle
    /\ GroupIdle
    /\ PrepareIdle
    /\ ConeIdle

ShadowSpec == ShadowSpecInit /\ [][ShadowNext]_vars

\* the k-th sorted intersection lies ahead of the point, on an object that
\* casts shadows
CastsAt(k) == hsorted[k].t >= 0 /\ hsorted[k].object \notin hshadowless

\* C23: is_shadowed(point, light) is true exactly when, among the sorted
\* intersections of the ray cast from point toward the light, the first one
\* with t >= 0 whose object casts shadows has t less than the distance from
\* point to the light; intersections with objects marked no_shadow never
\* make a point shadowed.
C23_ShadowedIffCasterBeforeLight ==
    hpc = "done" =>
        /\ hshadowed <=>
              \E k \in 1..Len(hsorted) :
                 /\ CastsAt(k)
                 /\ \A j \in 1..(k - 1) : ~CastsAt(j)
                 /\ hsorted[k].t < hdistance
        /\ (\A k \in 1..Len(hxs) : hxs[k].object \in hshadowless) => ~hshadowed
        /\ hshadowed <=>
              \E k \in 1..Len(hxs) :
                 /\ hxs[k].object \notin hshadowless
                 /\ hxs[k].t >= 0
                 /\ hxs[k].t < hdistance

\* an object marked no_shadow stands between the point and the light, a
\* casting one behind it still before the light: shadowed
C23_Witness ==
    /\ hpc = "done"
    /\ hshadowed
    /\ Len(hsorted) >= 3
    /\ hsorted[1].t < 0
    /\ hsorted[2].t >= 0 /\ hsorted[2].object \in hshadowless
    /\ hsorted[3].object \notin hshadowless
    /\ hxs # hsorted

\* ------------------------------------------------------------------------
\* Cylinder::local_intersect and Cone::local_intersect
\* (geometry/shape/cylinder.rs, geometry/shape/cone.rs)
\*
\* Rays have integer coordinates; every t is then an exact fraction
\* <<numerator, denominator>> in lowest terms with a positive denominator.
\* Rays are taken from those whose discriminant is a perfect square, so
\* that disc.sqrt() is exact too.  With integer coordinates a coefficient
\* is below EPSILON in magnitude exactly when it is 0.
\* ------------------------------------------------------------------------
RECURSIVE Gcd(_, _)
Gcd(m, n) == IF n = 0 THEN m ELSE Gcd(n, m % n)

\* the fraction num / den (den # 0) in lowest terms
Frac(num, den) ==
    The({ <<(IF den < 0 THEN 0 - num ELSE num) \div g, Abs(den) \div g>>
          : g \in {Gcd(Abs(num), Abs(den))} })

\* origin + t * direction for one coordinate
Along(origin, t, direction) == Frac(origin * t[2] + t[1] * direction, t[2])

\* p < q for fractions
FracLt(p, q) == p[1] * q[2] < q[1] * p[2]

\* self.minimum < y && y < self.maximum; the bounds are integers or the
\* infinities of Cylinder::default and Cone::default
InRange(shape, y) ==
    /\ shape.minimum = NEG_INFINITY \/ FracLt(<<shape.minimum, 1>>, y)
    /\ shape.maximum = INFINITY \/ FracLt(y, <<shape.maximum, 1>>)

\* disc.sqrt() of a perfect square
Sqrt(n) == The({r \in 0..n : r * r = n})

IsSquare(n) == \E r \in 0..n : r * r = n

\* Cylinder::check_cap (radius 1) and Cone::check_cap (radius |y| of the cap)
check_cap(ray, t, radius) ==
    The({ x[1] * x[1] + z[1] * z[1] <= radius * radius * t[2] * t[2]
          : x \in {<<ray.origin[1] * t[2] + t[1] * ray.direction[1], t[2]>>},
            z \in {<<ray.origin[3] * t[2] + t[1] * ray.direction[3], t[2]>>} })

CapRadius(shape, y) == IF shape.kind = "Cylinder" THEN 1 ELSE y

\* intersect_caps of both shapes.  A ray with direction.y = 0 divides by
\* zero: t is infinite or NaN and check_cap is false for it.
intersect_caps(shape, ray) ==
    IF ~shape.closed \/ ray.direction[2] = 0 THEN <<>>
    ELSE The({ (IF check_cap(ray, lower, CapRadius(shape, shape.minimum))
                THEN <<[t |-> lower, branch |-> "cap"]>> ELSE <<>>)
               \o
               (IF check_cap(ray, upper, CapRadius(shape, shape.maximum))
                THEN <<[t |-> upper, branch |-> "cap"]>> ELSE <<>>)
               : lower \in {Frac(shape.minimum - ray.origin[2], ray.direction[2])},
                 upper \in {Frac(shape.maximum - ray.origin[2], ray.direction[2])} })

\* the two roots with their y-range test, shared by both shapes
Walls(shape, ray, a, b, disc) ==
    The({ (IF InRange(shape, Along(ray.origin[2], t0, ray.direction[2]))
           THEN <<[t |-> t0, branch |-> "wall"]>> ELSE <<>>)
          \o
          (IF InRange(shape, Along(ray.origin[2], t1, ray.direction[2]))
           THEN <<[t |-> t1, branch |-> "wall"]>> ELSE <<>>)
          : t0 \in {Frac((0 - b) - Sqrt(disc), 2 * a)},
            t1 \in {Frac((0 - b) + Sqrt(disc), 2 * a)} })

CylinderA(ray) == ray.direction[1] * ray.direction[1] + ray.direction[3] * ray.direction[3]

CylinderB(ray) ==
    2 * ray.origin[1] * ray.direction[1] + 2 * ray.origin[3] * ray.direction[3]

CylinderC(ray) == ray.origin[1] * ray.origin[1] + ray.origin[3] * ray.origin[3] - 1

ConeA(ray) == CylinderA(ray) - ray.direction[2] * ray.direction[2]

ConeB(ray) == CylinderB(ray) - 2 * ray.origin[2] * ray.direction[2]

ConeC(ray) ==
    ray.origin[1] * ray.origin[1] - ray.origin[2] * ray.origin[2]
        + ray.origin[3] * ray.origin[3]

Disc(a, b, c) == b * b - 4 * a * c

\* Cylinder::local_intersect
cylinder_local_intersect(shape, ray) ==
    The({ IF a = 0 THEN intersect_caps(shape, ray)
          ELSE IF disc < 0 THEN <<>>
          ELSE Walls(shape, ray, a, b, disc) \o intersect_caps(shape, ray)
          : a \in {CylinderA(ray)}, b \in {CylinderB(ray)},
            disc \in {Disc(CylinderA(ray), CylinderB(ray), CylinderC(ray))} })

\* the degenerate branch written as the quotient by 2 * b
cone_linear_t_quotient(b, c) == Frac(0 - c, 2 * b)

\* let t = -c / 2.0 * b: the quotient -c / 2.0, times b
cone_linear_t(b, c) == Frac((0 - c) * b, 2)

\* Cone::local_intersect
cone_local_intersect(shape, ray) ==
    The({ IF a = 0
          THEN IF b = 0 THEN intersect_caps(shape, ray)
               ELSE <<[t |-> cone_linear_t(b, c), branch |-> "linear"]>>
                    \o intersect_caps(shape, ray)
          ELSE IF disc < 0 THEN <<>>
          ELSE Walls(shape, ray, a, b, disc) \o intersect_caps(shape, ray)
          : a \in {ConeA(ray)}, b \in {ConeB(ray)}, c \in {ConeC(ray)},
            disc \in {Disc(ConeA(ray), ConeB(ray), ConeC(ray))} })

\* unbounded and open, truncated and open, truncated and closed
ConeShapes ==
    { [kind |-> k, minimum |-> m[1], maximum |-> m[2], closed |-> m[3]]
      : k \in {"Cylinder", "Cone"},
        m \in { <<NEG_INFINITY, INFINITY, FALSE>>, <<0 - 1, 1, FALSE>>,
                <<0 - 1, 1, TRUE>>, <<1, 2, TRUE>> } }

ConeRays ==
    { [origin |-> o, direction |-> d]
      : o \in ((0 - MaxCoord)..MaxCoord) \X ((0 - MaxCoord)..MaxCoord)
              \X ((0 - MaxCoord)..MaxCoord),
        d \in (((0 - 1)..1) \X ((0 - 1)..1) \X ((0 - 1)..1)) \ {<<0, 0, 0>>} }

\* the discriminant the shape computes for the ray has an exact root
ExactRoots(shape, ray) ==
    \E disc \in {IF shape.kind = "Cylinder"
                 THEN Disc(CylinderA(ray), CylinderB(ray), CylinderC(ray))
                 ELSE Disc(ConeA(ray), ConeB(ray), ConeC(ray))} :
       disc < 0 \/ IsSquare(disc)

ConeInit ==
    /\ kpc = "start"
    /\ kshape \in ConeShapes
    /\ kray \in {r \in ConeRays : ExactRoots(kshape, r)}
    /\ kxs = <<>>

\* cyl.local_intersect(&r)
CylinderLocalIntersect ==
    /\ kpc = "start"
    /\ kshape.kind = "Cylinder"
    /\ kxs' = cylinder_local_intersect(kshape, kray)
    /\ kpc' = "done"
    /\ UNCHANGED <<kshape, kray>>
    /\ UNCHANGED <<ivars, svars, rvars, ovars, bvars, gvars, pvars, hvars>>

\* shape.local_intersect(&r) on a cone
ConeLocalIntersect ==
    /\ kpc = "start"
    /\ kshape.kind = "Cone"
    /\ kxs' = cone_local_intersect(kshape, kray)
    /\ kpc' = "done"
    /\ UNCHANGED <<kshape, kray>>
    /\ UNCHANGED <<ivars, svars, rvars, ovars, bvars, gvars, pvars, hvars>>

ConeNext ==
    \/ CylinderLocalIntersect
    \/ ConeLocalIntersect

ConeSpecInit ==
    /\ ConeInit
    /\ IntersectIdle
    /\ ShadeIdle
    /\ RenderIdle
    /\ OptsIdle
    /\ BoxIdle
    /\ GroupIdle
    /\ PrepareIdle
    /\ ShadowIdle

ConeSpec == ConeSpecInit /\ [][ConeNext]_vars

\* C25: every wall (non-cap) intersection returned by
\* Cylinder::local_intersect and by Cone::local_intersect lies at a point
\* whose y coordinate is strictly between minimum and maximum, the cone's
\* linear degenerate case (a near zero, b not near zero) included.
C25_WallsWithinRange ==
    kpc = "done" =>
        \A k \in 1..Len(kxs) :
            kxs[k].branch # "cap" =>
                \E y \in {Along(kray.origin[2], kxs[k].t, kray.direction[2])} :
                    /\ kshape.minimum # NEG_INFINITY =>
                          kshape.minimum * y[2] < y[1]
                    /\ kshape.maximum # INFINITY =>
                          y[1] < kshape.maximum * y[2]

\* C26: in the cone's degenerate case, where the quadratic coefficient a is
\* (near) zero and b is not, Cone::local_intersect reports the single wall
\* intersection at t = -c / (2*b), for every b and c.
C26_LinearRootOverTwoB ==
    (kpc = "done" /\ kshape.kind = "Cone" /\ ConeA(kray) = 0 /\ ConeB(kray) # 0) =>
        /\ Cardinality({k \in 1..Len(kxs) : kxs[k].branch # "cap"}) = 1
        /\ \E k \in 1..Len(kxs) :
              /\ kxs[k].branch # "cap"
              /\ kxs[k].t[1] * 2 * ConeB(kray) = (0 - ConeC(kray)) * kxs[k].t[2]

\* C28: Group::divide(threshold) terminates for every finite shape tree and
\* every threshold: no call of divide is left without a return.
C28_DivideTerminates ==
    gpc # "overflow"

\* how many primitives with this id the subtree of shape holds
RECURSIVE LeafCount(_, _)
LeafCount(shape, id) ==
    IF IsPrimitive(shape) THEN (IF shape.id = id THEN 1 ELSE 0)
    ELSE SeqSum([k \in 1..Len(shape.children) |-> LeafCount(shape.children[k], id)])

\* the children of group whose parent-space bounds fit in half
FitIn(group, half) ==
    {k \in 1..Len(group.children) :
        contains_bounding_box(half, parent_space_bounds(group.children[k]))}

\* C27: Group::divide(threshold) neither loses nor duplicates shapes: the
\* primitives reachable from the group are the same, each as often, before
\* and after the call; each former direct child (that holds a primitive) is
\* found below exactly one child of the divided group, and a child that
\* fits in both halves of the group's box is found in the left subgroup,
\* the first child after those that stayed at this level.
C27_DivideKeepsEveryShapeOnce ==
    (glast.op = "divide" /\ gpc # "overflow") =>
        /\ \A id \in 1..MaxPrims : LeafCount(grp, id) = LeafCount(gprev, id)
        /\ glast.arg <= Len(gprev.children) =>
              \E halves \in {split(get_bounds(gprev))} :
              \E left \in {FitIn(gprev, halves[1])}, right \in {FitIn(gprev, halves[2])} :
              \E stayed \in {Len(gprev.children) - Cardinality(left \cup right)} :
                  /\ \A k \in 1..Len(gprev.children) :
                        Ids(gprev.children[k]) # {} =>
                            Cardinality({i \in 1..Len(grp.children) :
                                            Ids(gprev.children[k]) \subseteq
                                                Ids(grp.children[i])}) = 1
                  /\ \A k \in left \cap right :
                        /\ Len(grp.children) > stayed
                        /\ grp.children[stayed + 1].kind = "Group"
                        /\ Ids(gprev.children[k]) \subseteq Ids(grp.children[stayed + 1])
                        /\ \A i \in 1..stayed :
                              Ids(grp.children[i]) \cap Ids(gprev.children[k]) = {}

\* a divide moved a child that fits in both halves of the box into the left
\* subgroup, beside a child that fits in neither half and stayed
C27_Witness ==
    /\ glast.op = "divide"
    /\ gpc # "overflow"
    /\ glast.arg <= Len(gprev.children)
    /\ \E halves \in {split(get_bounds(gprev))} :
          /\ FitIn(gprev, halves[1]) \cap FitIn(gprev, halves[2]) # {}
          /\ FitIn(gprev, halves[1]) \cup FitIn(gprev, halves[2]) # 1..Len(gprev.children)
    /\ Len(grp.children) = 2
    /\ grp.children[1] \in {gprev.children[k] : k \in 1..Len(gprev.children)}
    /\ grp.children[2].kind = "Group"
    /\ Len(grp.children[2].children) = 1
    /\ grp.children[2].children[1].kind = "Cone"

\* C29: the empty (default) bounding box is the identity of union: for
\* every box B, B.add_bounding_box(BoundingBox::default()) leaves B's min
\* and max unchanged.
C29_DefaultBoxIsIdentity ==
    (bpc = "done" /\ boxB = BoundingBoxDefault) =>
        /\ boxU.min = boxA.min
        /\ boxU.max = boxA.max

\* C30: prepare_computations tracks containers by shape identity: two
\* distinct shapes that have equal transform and material are kept as
\* separate entries of the container list, so that the list held when the
\* replay stops is the one built shape by shape, and the replay stops only
\* at the hit itself, not at another shape's intersection with the same t.
C30_ContainersTrackIdentity ==
    ppc = "done" =>
        \E loop \in {PrepareLoop(pxs, pxs[phit], 1, <<>>, 0 - 10)} :
            /\ loop.stop = HitPlace
            /\ loop.containers = ContainersAfter(pxs, loop.stop)

====
